---- MODULE Spec2Model ----
(***************************************************************************)
(* HeardDat PC server: the pairing protocol of server/pairing.py           *)
(* (PairingRegistry over a JsonStore), the seed derivation                 *)
(* compute_pairing_seed, the audio fan-out of server/audio.py              *)
(* (AudioRouter and the audio_ws handler), the device notification hub of  *)
(* server/devices.py (DeviceHub and the device_ws handler), the pairing    *)
(* routes of server/web.py, the producer side recv_audio, and the registry *)
(* called from several threads at once.                                    *)
(*                                                                         *)
(* Strings are sequences of one-character strings, so that str(), strip(), *)
(* isoformat() and fromisoformat() are modelled by what they do.  Python   *)
(* integers are unbounded: the seed is carried as a sign and a sequence of *)
(* decimal digits, most significant first.                                 *)
(***************************************************************************)
EXTENDS Integers, Sequences, FiniteSets, TLC

VARIABLES
    now,            \* minutes of wall-clock time elapsed since StartTime
    store,          \* the "pairing" document of the JsonStore: tokens, devices
    lockout_until,  \* PairingRegistry._lockout_until: None or a datetime
    minted,         \* number of tokens secrets.token_urlsafe has produced
    issued,         \* history: token -> the issued_at issue_token returned
    granted,        \* history: device_id -> the seeds confirm_device returned
    confirmed,      \* history: tokens a confirm_device has succeeded with
    failed,         \* history: tokens a confirm_device failed on with
                    \*          InvalidPin or TokenExpired
    last,           \* the last registry call: its arguments and its outcome
    seedIn,         \* compute_pairing_seed called on its own: the arguments
    seedOut,        \* ... and its outcome
    sources,        \* AudioRouter._sources: channel -> set of consumer queues
    queues,         \* the asyncio.Queue of each consumer connection: payloads
    router_lock,    \* AudioRouter._lock: Free or the task holding it
    consumer,       \* audio_ws handler of each consumer connection: where it
                    \* is, its channel, the payload it is sending
    received,       \* history: payloads each consumer websocket was sent
    inflight,       \* broadcast call of each producer: the payload and the
                    \* snapshot entries not yet delivered to
    sent,           \* number of payloads each producer has broadcast
    quota,          \* what the audio connections will do in this run
    hub_devices,    \* DeviceHub._devices: the entries, in insertion order
    conn,           \* each device connection: state of its device_ws handler
    handoff,        \* coroutines handed to each context, not yet run
    caller,         \* the notification call each context is in
    sends,          \* history: the send_json calls made on device websockets
    notes,          \* number of notifications issued so far
    web,            \* the HTTP boundary: host and port the app was built
                    \* with, the last request and its response
    ingest,         \* audio_ingest handler of each producer connection
    aired,          \* history: the broadcast calls of each producer
    threads,        \* registry calls in progress on each thread
    written,        \* history: the device records confirm_device has
                    \* saved, each with the token it was made from
    calls,          \* registry calls the threads have started
    hub_lock,       \* DeviceHub._lock: Free or the context holding it
    hubop           \* the DeviceHub method each context is inside the
                    \* `with self._lock` block of

audioVars == <<sources, queues, router_lock, consumer, received, inflight,
               sent, quota>>

hubVars == <<hub_devices, conn, handoff, caller, sends, notes>>

extVars == <<web, ingest, aired, threads, written, calls, hub_lock, hubop>>

vars == <<now, store, lockout_until, minted, issued, granted, confirmed,
          failed, last, seedIn, seedOut, audioVars, hubVars, extVars>>

None == "None"

----------------------------------------------------------------------------
(* Bounds of the model.                                                    *)

\* The clock advances MaxTicks times, by TickMinutes each time.
MaxTicks == 2
\* Number of tokens issue_token may mint in one run.
MaxTokens == 2
\* A ttl_minutes argument longer than the default.
LongTtlMinutes == 15
\* compute_pairing_seed on its own: r, g, b range over -MaxDelta..MaxDelta.
MaxDelta == 2

----------------------------------------------------------------------------
(* Program constants.                                                      *)

\* pairing.py:94   def issue_token(self, ttl_minutes: int = 10)
DefaultTtlMinutes == 10
\* pairing.py:157  timedelta(minutes=10)
LockoutMinutes == 10
\* pairing.py:222-223  % 10000, f"{value:04d}"
PinModulus == 10000
PinWidth == 4

\* The clock of the model moves in steps of half the lockout period.
TickMinutes == LockoutMinutes \div 2

----------------------------------------------------------------------------
(* Text: decimal digits and strings.                                       *)

DigitChars == <<"0", "1", "2", "3", "4", "5", "6", "7", "8", "9">>

DigitChar(d) == DigitChars[d + 1]

IsDigitChar(c) == \E d \in 0..9 : DigitChars[d + 1] = c

DigitVal(c) == CHOOSE d \in 0..9 : DigitChars[d + 1] = c

\* The decimal digits of a natural number, most significant first.
RECURSIVE NatDigits(_)
NatDigits(n) ==
    IF n < 10 THEN <<n>> ELSE Append(NatDigits(n \div 10), n % 10)

\* Digits to characters.
DigitsStr(ds) == [i \in 1..Len(ds) |-> DigitChar(ds[i])]

\* f"{n:0<w>d}": decimal, padded on the left with zeros to width w.
RECURSIVE ZeroPad(_, _)
ZeroPad(ds, w) == IF Len(ds) >= w THEN ds ELSE ZeroPad(<<0>> \o ds, w)

FormatInt(n, w) == DigitsStr(ZeroPad(NatDigits(n), w))

\* int(s) of a string of decimal digits.
RECURSIVE ParseInt(_)
ParseInt(s) ==
    IF s = <<>> THEN 0
    ELSE 10 * ParseInt(SubSeq(s, 1, Len(s) - 1)) + DigitVal(s[Len(s)])

\* str.strip(): leading and trailing whitespace removed.
RECURSIVE Strip(_)
Strip(s) ==
    IF s = <<>> THEN s
    ELSE IF s[1] = " " THEN Strip(Tail(s))
    ELSE IF s[Len(s)] = " " THEN Strip(SubSeq(s, 1, Len(s) - 1))
    ELSE s

----------------------------------------------------------------------------
(* Unbounded naturals as digit sequences (Python int).                     *)

RECURSIVE StripZeros(_)
StripZeros(ds) ==
    IF Len(ds) > 1 /\ ds[1] = 0 THEN StripZeros(Tail(ds)) ELSE ds

\* ds * k + carry, for small naturals k and carry.
RECURSIVE MulSmall(_, _, _)
MulSmall(ds, k, carry) ==
    IF ds = <<>> THEN (IF carry = 0 THEN <<>> ELSE NatDigits(carry))
    ELSE LET cur == ds[Len(ds)] * k + carry
         IN  Append(MulSmall(SubSeq(ds, 1, Len(ds) - 1), k, cur \div 10),
                    cur % 10)

BigMul(ds, k) == StripZeros(<<0>> \o MulSmall(ds, k, 0))

BigAdd(ds, k) == StripZeros(<<0>> \o MulSmall(ds, 1, k))

\* divmod(ds, d) for a small d > 0: long division, most significant first.
RECURSIVE DivSmall(_, _, _, _)
DivSmall(ds, d, q, rem) ==
    IF ds = <<>> THEN [q |-> StripZeros(<<0>> \o q), rem |-> rem]
    ELSE LET cur == rem * 10 + ds[1]
         IN  DivSmall(Tail(ds), d, Append(q, cur \div d), cur % d)

BigDivMod(ds, d) == DivSmall(ds, d, <<>>, 0)

\* a < b for digit sequences without leading zeros.
RECURSIVE LexLess(_, _)
LexLess(a, b) ==
    IF a = <<>> THEN FALSE
    ELSE IF a[1] # b[1] THEN a[1] < b[1]
    ELSE LexLess(Tail(a), Tail(b))

BigLess(a, b) ==
    IF Len(a) # Len(b) THEN Len(a) < Len(b) ELSE LexLess(a, b)

BigLeq(a, b) == a = b \/ BigLess(a, b)

\* A Python int: sign and magnitude.  Zero has no sign.
BigInt(neg, mag) == [neg |-> neg /\ mag # <<0>>, mag |-> mag]

\* str(n) of a Python int.
IntStr(n) == (IF n.neg THEN <<"-">> ELSE <<>>) \o DigitsStr(n.mag)

----------------------------------------------------------------------------
(* datetime: aware UTC timestamps of whole seconds.                        *)

DateTime(y, mo, d, h, mi, s) ==
    [year |-> y, month |-> mo, day |-> d, hour |-> h, minute |-> mi,
     second |-> s]

IsLeap(y) == (y % 4 = 0 /\ y % 100 # 0) \/ y % 400 = 0

DaysInMonth(y, mo) ==
    IF mo = 2 THEN (IF IsLeap(y) THEN 29 ELSE 28)
    ELSE IF mo \in {4, 6, 9, 11} THEN 30 ELSE 31

RECURSIVE AddDays(_, _)
AddDays(dt, n) ==
    IF n = 0 THEN dt
    ELSE IF dt.day < DaysInMonth(dt.year, dt.month)
         THEN AddDays([dt EXCEPT !.day = @ + 1], n - 1)
    ELSE IF dt.month < 12
         THEN AddDays([dt EXCEPT !.day = 1, !.month = @ + 1], n - 1)
    ELSE AddDays([dt EXCEPT !.day = 1, !.month = 1, !.year = @ + 1], n - 1)

\* dt + timedelta(minutes=m), m >= 0.
AddMinutes(dt, m) ==
    LET tm == dt.minute + m
        th == dt.hour + (tm \div 60)
    IN  AddDays([dt EXCEPT !.minute = tm % 60, !.hour = th % 24], th \div 24)

DtKey(dt) == <<dt.year, dt.month, dt.day, dt.hour, dt.minute, dt.second>>

\* a < b on datetimes: the earlier instant.
DtLess(a, b) == LexLess(DtKey(a), DtKey(b))

DtLeq(a, b) == a = b \/ DtLess(a, b)

\* datetime.isoformat(): "YYYY-MM-DDTHH:MM:SS+00:00".
isoformat(dt) ==
    FormatInt(dt.year, 4) \o <<"-">> \o FormatInt(dt.month, 2) \o <<"-">>
    \o FormatInt(dt.day, 2) \o <<"T">> \o FormatInt(dt.hour, 2) \o <<":">>
    \o FormatInt(dt.minute, 2) \o <<":">> \o FormatInt(dt.second, 2)
    \o <<"+", "0", "0", ":", "0", "0">>

\* datetime.fromisoformat() of such a string.
fromisoformat(s) ==
    DateTime(ParseInt(SubSeq(s, 1, 4)), ParseInt(SubSeq(s, 6, 7)),
             ParseInt(SubSeq(s, 9, 10)), ParseInt(SubSeq(s, 12, 13)),
             ParseInt(SubSeq(s, 15, 16)), ParseInt(SubSeq(s, 18, 19)))

\* The wall clock when the process starts (the timestamp of
\* test_compute_pairing_seed_example).
StartTime == DateTime(2026, 2, 3, 10, 50, 47)

\* datetime.now(timezone.utc) when `minutes` have elapsed.
ClockAt(minutes) == AddMinutes(StartTime, minutes)

----------------------------------------------------------------------------
(* compute_pairing_seed                                                    *)

Abs(x) == IF x < 0 THEN -x ELSE x

ErrValue == BigInt(FALSE, <<0>>)

Ok(v) == [kind |-> "ok", value |-> v]

Raise(kind) == [kind |-> kind, value |-> ErrValue]

\* numer = t * y of compute_pairing_seed, a Python int.
SeedNumerator(issued_at, r, g, b) ==
    LET h_adj == issued_at.hour + g
        m_adj == issued_at.minute + b
        s_adj == issued_at.second + r
        t     == (h_adj * m_adj) * s_adj
        year  == issued_at.year
        month == issued_at.month
        day   == issued_at.day
        yy    == year % 100
        base  == (month * 100) + (yy + day)
        pack  == (month * 1000) + base
        y     == year * pack
    IN  BigInt(t < 0, BigMul(NatDigits(y), Abs(t)))

\* A slip: an exact half rounded towards zero.
RoundedQuotientHalfDown(mag, d) ==
    LET qr == BigDivMod(mag, d)
    IN  IF (2 * qr.rem) > d THEN BigAdd(qr.q, 1) ELSE qr.q

\* q, rem = divmod(abs(numer), d); if (2 * rem) >= d: q += 1
RoundedQuotient(mag, d) ==
    LET qr == BigDivMod(mag, d)
    IN  IF (2 * qr.rem) >= d THEN BigAdd(qr.q, 1) ELSE qr.q

\* A slip: the magnitude of the sum instead of the sum of magnitudes.
DeltaSumOfSigned(r, g, b) == Abs(r + g + b)

\* d = abs(r) + abs(g) + abs(b)
DeltaSum(r, g, b) == Abs(r) + Abs(g) + Abs(b)

compute_pairing_seed(issued_at, r, g, b) ==
    LET d     == DeltaSum(r, g, b)
        numer == SeedNumerator(issued_at, r, g, b)
    IN  IF d = 0 THEN Raise("InvalidDelta")
        ELSE Ok(BigInt(numer.neg, RoundedQuotient(numer.mag, d)))

----------------------------------------------------------------------------
(* Python dict operations.                                                 *)

EmptyDict == <<>>

\* d[k] = v
SetKey(d, k, v) == [x \in (DOMAIN d) \cup {k} |-> IF x = k THEN v ELSE d[x]]

\* d.pop(k, None)
PopKey(d, k) == [x \in (DOMAIN d) \ {k} |-> d[x]]

----------------------------------------------------------------------------
(* derive_pairing_pin                                                      *)

\* A token is the serial number of the secrets.token_urlsafe() call that
\* produced it: every call returns a string never seen before.
TokenStr(token) == DigitsStr(NatDigits(token))

CharCode(c) == IF IsDigitChar(c) THEN 48 + DigitVal(c) ELSE 58

\* Stand-in for int.from_bytes(sha256(payload).digest()[:4], "big"): a
\* deterministic digest of the characters of the payload.
RECURSIVE Digest(_, _)
Digest(payload, h) ==
    IF payload = <<>> THEN h
    ELSE Digest(Tail(payload), (h * 31 + CharCode(payload[1])) % 65521)

derive_pairing_pin(token, issued_at) ==
    LET payload == TokenStr(token) \o <<":">> \o isoformat(issued_at)
        value   == Digest(payload, 7) % PinModulus
    IN  FormatInt(value, PinWidth)

----------------------------------------------------------------------------
(* JsonStore and PairingRegistry                                           *)

\* JsonStore.load() of a file that does not exist yet: {} -- no tokens, no
\* devices (payload.get("tokens", {}), payload.get("devices", {})).
EmptyStore == [tokens |-> EmptyDict, devices |-> EmptyDict]

\* PairingRegistry._load / _save over JsonStore.load / save: the whole
\* "pairing" document is read, and replaced, at once.
Load(st) == st

\* A slip: the devices of the payload are merged into those on file.
SaveMergingDevices(st, payload) ==
    [tokens  |-> payload.tokens,
     devices |-> [d \in (DOMAIN st.devices) \cup (DOMAIN payload.devices) |->
                    IF d \in DOMAIN payload.devices THEN payload.devices[d]
                    ELSE st.devices[d]]]

Save(st, payload) == payload

NoLockout == <<>>

\* A slip: the comparison the wrong way round.
LockedOutReversed(lock, nowdt) == lock # NoLockout /\ DtLess(lock[1], nowdt)

\* self._lockout_until and datetime.now(timezone.utc) < self._lockout_until
LockedOut(lock, nowdt) == lock # NoLockout /\ DtLess(nowdt, lock[1])

\* What a registry call leaves behind: the outcome (kind "ok" and the value
\* returned, or the failure raised), the store and the lockout.
Outcome(res, st, lock) ==
    [kind |-> res.kind, value |-> res.value, store |-> st, lockout |-> lock]

\* A slip: payload["tokens"] = {token: {...}} forgets the tokens pending.
issue_token_forgets(st, nowdt, token, ttl_minutes) ==
    LET pin     == derive_pairing_pin(token, nowdt)
        payload == Load(st)
        record  == [issued_at  |-> isoformat(nowdt),
                    expires_at |-> isoformat(AddMinutes(nowdt, ttl_minutes)),
                    pin        |-> pin]
        saved   == [payload EXCEPT !.tokens = SetKey(EmptyDict, token, record)]
    IN  [token |-> token, issued_at |-> nowdt,
         expires_at |-> AddMinutes(nowdt, ttl_minutes), pin |-> pin,
         store |-> Save(st, saved)]

issue_token(st, nowdt, token, ttl_minutes) ==
    LET pin     == derive_pairing_pin(token, nowdt)
        payload == Load(st)
        record  == [issued_at  |-> isoformat(nowdt),
                    expires_at |-> isoformat(AddMinutes(nowdt, ttl_minutes)),
                    pin        |-> pin]
        saved   == [payload EXCEPT !.tokens = SetKey(@, token, record)]
    IN  [token |-> token, issued_at |-> nowdt,
         expires_at |-> AddMinutes(nowdt, ttl_minutes), pin |-> pin,
         store |-> Save(st, saved)]

\* A slip: the token is left in the pending set.
PairDeviceKeepToken(payload, nowdt, device_id, token, seed, ip) ==
    LET record == [device_id    |-> device_id,
                   seed         |-> IntStr(seed),
                   paired_at    |-> isoformat(nowdt),
                   last_seen_ip |-> ip]
    IN  [tokens  |-> payload.tokens,
         devices |-> SetKey(payload.devices, device_id, record)]

\* A slip: the caller's address is not recorded.
PairDeviceNoIp(payload, nowdt, device_id, token, seed, ip) ==
    LET record == [device_id    |-> device_id,
                   seed         |-> IntStr(seed),
                   paired_at    |-> isoformat(nowdt),
                   last_seen_ip |-> None]
    IN  [tokens  |-> PopKey(payload.tokens, token),
         devices |-> SetKey(payload.devices, device_id, record)]

\* A slip: setdefault(device_id, {...}) keeps the record of a device that is
\* already paired.
PairDeviceKeepOld(payload, nowdt, device_id, token, seed, ip) ==
    LET record == [device_id    |-> device_id,
                   seed         |-> IntStr(seed),
                   paired_at    |-> isoformat(nowdt),
                   last_seen_ip |-> ip]
    IN  [tokens  |-> PopKey(payload.tokens, token),
         devices |-> IF device_id \in DOMAIN payload.devices
                     THEN payload.devices
                     ELSE SetKey(payload.devices, device_id, record)]

\* payload["devices"][device_id] = {...}; tokens.pop(token); self._save(payload)
PairDevice(payload, nowdt, device_id, token, seed, ip) ==
    LET record == [device_id    |-> device_id,
                   seed         |-> IntStr(seed),
                   paired_at    |-> isoformat(nowdt),
                   last_seen_ip |-> ip]
    IN  [tokens  |-> PopKey(payload.tokens, token),
         devices |-> SetKey(payload.devices, device_id, record)]

\* A slip: now > expires_at.
ExpiredStrictly(record, nowdt) ==
    record.expires_at # <<>>
    /\ DtLess(fromisoformat(record.expires_at), nowdt)

\* now >= expires_at
Expired(record, nowdt) ==
    record.expires_at # <<>>
    /\ DtLeq(fromisoformat(record.expires_at), nowdt)

\* A slip: the timedelta is left out.
LockoutFromNow(nowdt) == <<nowdt>>

\* A slip: timedelta(minutes=5).
LockoutFromHalf(nowdt) == <<AddMinutes(nowdt, LockoutMinutes \div 2)>>

\* self._lockout_until = datetime.now(timezone.utc) + timedelta(minutes=10)
LockoutFrom(nowdt) == <<AddMinutes(nowdt, LockoutMinutes)>>

\* str(pin).strip() != expected_pin
PinMismatch(record, pin) == Strip(pin) # Strip(record.pin)

\* A slip: the record is written before the PIN is compared.
confirm_device_early(st, lock, nowdt, device_id, token, pin, r, g, b, ip) ==
    LET payload == Load(st)
        tokens  == payload.tokens
    IN  IF LockedOut(lock, nowdt) THEN Outcome(Raise("PairingLocked"), st, lock)
        ELSE IF token \notin DOMAIN tokens
             THEN Outcome(Raise("InvalidToken"), st, lock)
        ELSE IF tokens[token].issued_at = <<>>
             THEN Outcome(Raise("MissingIssuedAt"), st, lock)
        ELSE IF Expired(tokens[token], nowdt)
             THEN Outcome(Raise("TokenExpired"), st, lock)
        ELSE LET issued_at == fromisoformat(tokens[token].issued_at)
                 seed      == compute_pairing_seed(issued_at, r, g, b)
                 paired    == Save(st, PairDevice(payload, nowdt, device_id,
                                                  token, seed.value, ip))
             IN  IF seed.kind # "ok" THEN Outcome(seed, st, lock)
                 ELSE IF PinMismatch(tokens[token], pin)
                      THEN Outcome(Raise("InvalidPin"), paired,
                                   LockoutFrom(nowdt))
                 ELSE Outcome(seed, paired, lock)

confirm_device(st, lock, nowdt, device_id, token, pin, r, g, b, ip) ==
    LET payload == Load(st)
        tokens  == payload.tokens
    IN  IF LockedOut(lock, nowdt) THEN Outcome(Raise("PairingLocked"), st, lock)
        ELSE IF token \notin DOMAIN tokens
             THEN Outcome(Raise("InvalidToken"), st, lock)
        ELSE IF tokens[token].issued_at = <<>>
             THEN Outcome(Raise("MissingIssuedAt"), st, lock)
        ELSE IF Expired(tokens[token], nowdt)
             THEN Outcome(Raise("TokenExpired"), st, lock)
        ELSE IF PinMismatch(tokens[token], pin)
             THEN Outcome(Raise("InvalidPin"), st, LockoutFrom(nowdt))
        ELSE LET issued_at == fromisoformat(tokens[token].issued_at)
                 seed      == compute_pairing_seed(issued_at, r, g, b)
             IN  IF seed.kind # "ok" THEN Outcome(seed, st, lock)
                 ELSE Outcome(seed,
                              Save(st, PairDevice(payload, nowdt, device_id,
                                                  token, seed.value, ip)),
                              lock)

\* A slip: devices.setdefault(device_id, {})["last_seen_ip"] = ip makes a
\* record for a device that was never paired.
update_device_ip_creates(st, device_id, ip) ==
    LET payload == Load(st)
        devices == payload.devices
        blank   == [device_id |-> device_id, seed |-> <<>>,
                    paired_at |-> <<>>, last_seen_ip |-> ip]
    IN  IF device_id \in DOMAIN devices
        THEN Save(st, [payload EXCEPT
                          !.devices[device_id].last_seen_ip = ip])
        ELSE Save(st, [payload EXCEPT
                          !.devices = SetKey(@, device_id, blank)])

update_device_ip(st, device_id, ip) ==
    LET payload == Load(st)
        devices == payload.devices
    IN  IF device_id \in DOMAIN devices
        THEN Save(st, [payload EXCEPT
                          !.devices[device_id].last_seen_ip = ip])
        ELSE st

\* A slip: the seed and the credential compared as numbers.
validate_device_numeric(st, device_id, credential) ==
    LET devices == Load(st).devices
    IN  /\ device_id \in DOMAIN devices
        /\ \A i \in 1..Len(credential) : IsDigitChar(credential[i])
        /\ \A i \in 1..Len(devices[device_id].seed) :
               IsDigitChar(devices[device_id].seed[i])
        /\ StripZeros([i \in 1..Len(credential) |-> DigitVal(credential[i])])
           = StripZeros([i \in 1..Len(devices[device_id].seed) |->
                            DigitVal(devices[device_id].seed[i])])

\* bool(record and str(record.get("seed")) == str(token))
validate_device(st, device_id, credential) ==
    LET devices == Load(st).devices
    IN  device_id \in DOMAIN devices /\ devices[device_id].seed = credential

----------------------------------------------------------------------------
(* Inputs of the calls.                                                    *)

DeviceIds == {"device-123", "device-456"}

\* The tokens a caller may present: the tokens minted so far (a token is
\* unguessable before it is minted) and 0, which is never minted.
PresentedTokens(n) == 0..n

TtlChoices == {DefaultTtlMinutes, LongTtlMinutes}

\* (r, g, b): all zero, and the deltas of test_confirm_device.
DeltaChoices == {<<0, 0, 0>>, <<7, -1, 3>>}

\* The address a pairing request comes from, and a later address.
ConfirmIps == {"192.168.1.10"}

UpdateIps == {"192.168.1.11"}

WrongPin == <<"0", "0", "0", "0">>

\* PINs a caller may submit with a token: a fixed guess and, for a pending
\* token, its PIN and its PIN with blanks around it.
PinChoices(st, token) ==
    LET known == IF token \in DOMAIN st.tokens THEN {st.tokens[token].pin}
                 ELSE {}
    IN  known \cup {<<" ">> \o p \o <<" ">> : p \in known} \cup {WrongPin}

\* Credentials a connecting device may present: a stored seed string, the
\* seed stored for device_id written with a leading zero, and a fixed guess.
CredentialChoices(st, device_id) ==
    LET known == {st.devices[d].seed : d \in DOMAIN st.devices}
        own   == {st.devices[d].seed : d \in (DOMAIN st.devices) \cap {device_id}}
    IN  known \cup {<<"0">> \o c : c \in own} \cup {<<"1">>}

----------------------------------------------------------------------------
(* AudioRouter (server/audio.py) with the consumer handler audio_ws and    *)
(* the producer loop recv_audio.                                           *)
(*                                                                         *)
(* Tasks of the event loop interleave at their awaits.  The body of every  *)
(* `async with self._lock` contains no await, so each locked section is    *)
(* one step; the delivery loop of broadcast is one step per queue, which   *)
(* lets every other task run between two deliveries.  Each consumer        *)
(* connection creates exactly one queue, so a queue is named by its        *)
(* connection.                                                             *)

\* Payloads the long-running producer sends: more than a queue holds.
LongStream == 34
\* Payloads a producer sends in the short streams.
ShortStream == 2
\* Payloads the consumers take from their queues, in all, before they stall.
MaxTakes == 2
\* ... while the long stream is sent.
SlowTakes == 1

\* asyncio.Queue(maxsize=32)
maxsize == 32

Channels == {"A", "B"}

Consumers == {"c1", "c2"}

Producers == {"p1", "p2", "p3"}

\* The channel in the path of each producer's ingest connection.
ProducerChannel == [p \in Producers |-> IF p = "p3" THEN "B" ELSE "A"]

\* What the connections do in one run: how many payloads each producer
\* sends before it goes away, how many payloads the consumers take in all,
\* and how many consumer handlers end.
LongPlan ==
    [streams |-> [p \in Producers |-> IF p = "p1" THEN LongStream ELSE 0],
     takes |-> SlowTakes, exits |-> 0]

ShortPlan ==
    [streams |-> [p \in Producers |-> IF p = "p1" THEN ShortStream ELSE 1],
     takes |-> MaxTakes, exits |-> Cardinality(Consumers)]

StreamPlans == {LongPlan, ShortPlan}

NoStreams ==
    [streams |-> [p \in Producers |-> 0], takes |-> 0, exits |-> 0]

Free == "free"

Payload(p, n) == [src |-> p, seq |-> n]

NoPayload == [src |-> None, seq |-> 0]

\* self._sources.get(channel, set())
Consumers_of(src, channel) ==
    IF channel \in DOMAIN src THEN src[channel] ELSE {}

\* AudioRouter.register: self._sources.setdefault(channel, set()).add(queue)
register(src, channel, queue) ==
    SetKey(src, channel, Consumers_of(src, channel) \cup {queue})

\* AudioRouter.unregister with the empty set kept in the map.
unregisterKeepEmpty(src, channel, queue) ==
    IF channel \in DOMAIN src
    THEN SetKey(src, channel, src[channel] \ {queue})
    ELSE src

\* AudioRouter.unregister: discard the queue; drop the channel once empty.
unregister(src, channel, queue) ==
    LET consumers == Consumers_of(src, channel) \ {queue}
    IN  IF consumers = {}
        THEN PopKey(src, channel)
        ELSE SetKey(src, channel, consumers)

\* The snapshot of broadcast taken from every channel.
SnapshotAllChannels(src, channel) ==
    UNION {src[ch] : ch \in DOMAIN src}

\* AudioRouter.broadcast: consumers = list(self._sources.get(channel, set()))
Snapshot(src, channel) == Consumers_of(src, channel)

\* The lock after the `async with` block of broadcast has been left.
LockAfterSnapshot(task) == Free

\* asyncio.Queue.full
Full(q) == Len(q) >= maxsize

\* if queue.full(): queue.get_nowait() -- with the newest entry removed.
DropNewest(q) == IF Full(q) THEN SubSeq(q, 1, Len(q) - 1) ELSE q

\* ... with nothing removed.
DropNothing(q) == q

\* if queue.full(): queue.get_nowait()
DropOldest(q) == IF Full(q) THEN Tail(q) ELSE q

\* queue.put with the payload placed at the head of the queue.
putFront(q, payload) == <<payload>> \o q

\* asyncio.Queue.put once there is room: the payload goes to the tail.
put(q, payload) == Append(q, payload)

\* audio_ws ending, were its cleanup in the `except WebSocketDisconnect`.
audio_ws_exit_on_disconnect(src, channel, queue, cause) ==
    IF cause = "disconnect" THEN unregister(src, channel, queue) ELSE src

\* audio_ws ending: `finally: await router.unregister(channel, queue)`.
audio_ws_exit(src, channel, queue, cause) == unregister(src, channel, queue)

\* Ways the handler of a consumer connection ends, by where it is waiting:
\* in queue.get() only cancellation ends it; in send_bytes a send error, a
\* WebSocketDisconnect (the handler returns) or cancellation.
ExitCauses(pc) ==
    IF pc = "pumping" THEN {"cancel"}
    ELSE IF pc = "sending" THEN {"error", "disconnect", "cancel"}
    ELSE {}

\* Payloads taken from the queues so far.
TakesSoFar(cons, recv) ==
    LET n[S \in SUBSET Consumers] ==
            IF S = {} THEN 0
            ELSE LET c == CHOOSE x \in S : TRUE
                 IN  Len(recv[c]) + (IF cons[c].pc = "sending" THEN 1 ELSE 0)
                     + n[S \ {c}]
    IN  n[Consumers]

\* Consumer handlers that have ended so far.
ExitsSoFar(cons) == Cardinality({c \in Consumers : cons[c].pc = "closed"})

NoConsumer ==
    [pc |-> "none", channel |-> None, holding |-> NoPayload, exit |-> "none"]

NoBroadcast == [payload |-> NoPayload, pending |-> {}]

\* AudioRouter.__init__, no connection open yet.
AudioConstructed ==
    /\ sources = EmptyDict
    /\ queues = [c \in Consumers |-> <<>>]
    /\ router_lock = Free
    /\ consumer = [c \in Consumers |-> NoConsumer]
    /\ received = [c \in Consumers |-> <<>>]
    /\ inflight = [p \in Producers |-> NoBroadcast]
    /\ sent = [p \in Producers |-> 0]

\* The router with no audio connection ever opened.
AudioIdle == AudioConstructed /\ quota = NoStreams

----------------------------------------------------------------------------
(* DeviceHub (server/devices.py) with the device handler device_ws.        *)
(*                                                                         *)
(* Execution contexts: the event loops of the two uvicorn servers, each in *)
(* its own thread, and the thread of the IP monitor.  A dict is modelled   *)
(* as the sequence of its entries in insertion order, which is the order   *)
(* list(self._devices.values()) yields.                                    *)

\* Notifications sent in one run.
MaxNotes == 2

\* websocket.close(code=1008)
PolicyViolation == 1008

Loops == {"http", "https"}

Monitor == "monitor"

Contexts == Loops \cup {Monitor}

\* Where notifications are issued: a request handler of the http server
\* (local_service) and the IP monitor's thread (main.py handle_change).
Callers == {"http", Monitor}

DeviceConns == {"w1", "w2", "w3"}

\* The device_id in the path of each connection: two connections of one
\* device, one of another.
ConnDevice ==
    [w \in DeviceConns |-> IF w = "w3" THEN "device-456" ELSE "device-123"]

\* The event loop that serves each connection: the loop device_ws runs in.
ConnLoop == [w \in DeviceConns |-> IF w = "w2" THEN "https" ELSE "http"]

\* DeviceConnection(device_id, websocket, loop)
DeviceConnection(device_id, websocket, loop) ==
    [device_id |-> device_id, websocket |-> websocket, loop |-> loop]

\* The positions of the dict that hold key device_id.
EntriesOf(devs, device_id) ==
    {i \in 1..Len(devs) : devs[i].device_id = device_id}

\* DeviceHub.register, were every registration a new entry.
hub_register_append(devs, device_id, websocket, loop) ==
    Append(devs, DeviceConnection(device_id, websocket, loop))

\* DeviceHub.register: self._devices[device_id] = DeviceConnection(...)
hub_register(devs, device_id, websocket, loop) ==
    IF EntriesOf(devs, device_id) # {}
    THEN [i \in 1..Len(devs) |->
             IF devs[i].device_id = device_id
             THEN DeviceConnection(device_id, websocket, loop)
             ELSE devs[i]]
    ELSE Append(devs, DeviceConnection(device_id, websocket, loop))

\* DeviceHub.unregister: self._devices.pop(device_id, None)
hub_unregister(devs, device_id) ==
    SelectSeq(devs, LAMBDA e : e.device_id # device_id)

\* devices = list(self._devices.values())
hub_values(devs) == devs

\* device = self._devices.get(device_id), as the list of what was found.
hub_get(devs, device_id) ==
    SelectSeq(devs, LAMBDA e : e.device_id = device_id)

\* DeviceHub.count: len(self._devices)
count(devs) == Len(devs)

\* device_ws admitting whoever presents any credential.
device_ws_admits_any(st, device_id, token) ==
    token # <<>> /\ token[1] # <<>>

\* device_ws: `if not token or not pairing.validate_device(device_id, token)`
\* is false.  token is <<>> when the query has no token, else <<string>>.
device_ws_admits(st, device_id, token) ==
    /\ token # <<>>
    /\ token[1] # <<>>
    /\ validate_device(st, device_id, token[1])

\* run_coroutine_threadsafe running the coroutine where it is called.
RunInCaller(device, context) == context

\* asyncio.run_coroutine_threadsafe(coroutine, device.loop): the loop the
\* coroutine is handed to.
RunInLoop(device, context) == device.loop

\* How websocket.send_json can end: it raises on a connection that is not
\* open; on an open one it succeeds in the loop that serves the connection,
\* and used from another context it races with that loop.
SendOutcomes(state, context, owner) ==
    IF state # "open" THEN {FALSE}
    ELSE IF context = owner THEN {TRUE}
    ELSE {TRUE, FALSE}

\* A slip: the sends of notify_all / notify_device made inside the
\* `with self._lock` block.
HubLockAcrossSends(op, context) ==
    IF op \in {"notify_all", "notify_device"} THEN context ELSE "free"

\* The hub lock when the `with self._lock` block of a method is left.
HubLockAfter(op, context) == "free"

NoConn ==
    [state |-> "new", device_id |-> None, token |-> <<>>,
     accepted |-> FALSE, code |-> 0]

NoNotify == [status |-> "idle", op |-> "none", todo |-> <<>>]

\* An await of send_json in notify_all / notify_device raised: nothing
\* catches it, the loop over the devices is left and the caller gets the
\* exception.
notify_send_failed(call) ==
    [call EXCEPT !.status = "failed", !.todo = <<>>]

\* An await of send_json in notify_all / notify_device returned: on to the
\* next device, or the call returns.
notify_send_done(call) ==
    IF Tail(call.todo) = <<>> THEN NoNotify
    ELSE [call EXCEPT !.todo = Tail(@)]

\* DeviceHub.__init__, no connection open and no notification sent.
HubIdle ==
    /\ hub_devices = <<>>
    /\ conn = [w \in DeviceConns |-> NoConn]
    /\ handoff = [x \in Contexts |-> <<>>]
    /\ caller = [k \in Callers |-> NoNotify]
    /\ sends = {}
    /\ notes = 0

----------------------------------------------------------------------------
(* The HTTP boundary of the pairing protocol (server/web.py): POST         *)
(* /v1/pairing/request and POST /v1/pairing/confirm, and build_qr_payload. *)

\* pairing.py:12  PAIRING_VERSION = 1
PAIRING_VERSION == 1

\* host, http_port: the defaults of ServerConfig, and those of
\* test_build_qr_payload.
Hosts == {<<"0", ".", "0", ".", "0", ".", "0">>,
          <<"1", "2", "7", ".", "0", ".", "0", ".", "1">>}

HttpPorts == {80, 8080}

\* str(n) of a natural number.
NatStr(n) == DigitsStr(NatDigits(n))

\* A PairingToken as issue_token returns it: the token is a string.
PairingToken(token, issued_at, expires_at, pin) ==
    [token |-> token, issued_at |-> issued_at, expires_at |-> expires_at,
     pin |-> pin]

\* The FakeToken of test_build_qr_payload: it has no pin.
FakeToken ==
    [token |-> <<"a", "b", "c">>,
     issued_at |-> DateTime(2024, 1, 1, 0, 0, 0),
     expires_at |-> DateTime(2024, 1, 1, 1, 0, 0)]

\* body.get(key) of the JSON body of a request, getattr(obj, key, None).
BodyGet(body, key) == IF key \in DOMAIN body THEN body[key] ELSE None

\* A slip: the PIN travels in the payload.
build_qr_payload_with_pin(host, http_port, token) ==
    [v          |-> NatStr(PAIRING_VERSION),
     type       |-> "hearddat_pairing",
     server     |-> <<"h", "t", "t", "p", ":", "/", "/">> \o host \o <<":">>
                    \o NatStr(http_port),
     token      |-> token.token,
     issued_at  |-> isoformat(token.issued_at),
     expires_at |-> isoformat(token.expires_at),
     pin        |-> BodyGet(token, "pin")]

build_qr_payload(host, http_port, token) ==
    [v          |-> NatStr(PAIRING_VERSION),
     type       |-> "hearddat_pairing",
     server     |-> <<"h", "t", "t", "p", ":", "/", "/">> \o host \o <<":">>
                    \o NatStr(http_port),
     token      |-> token.token,
     issued_at  |-> isoformat(token.issued_at),
     expires_at |-> isoformat(token.expires_at)]

\* not body.get(key): the key is absent (or its value empty).
BodyLacks(body, key) == key \notin DOMAIN body

\* Parameters of confirm_device that have no default: a call that leaves one
\* out raises TypeError before the body runs.
ConfirmRequired == {"device_id", "token", "pin", "r", "g", "b"}

\* pairing.confirm_device(**kwargs)
call_confirm_device(st, lock, nowdt, kwargs) ==
    IF ConfirmRequired \ DOMAIN kwargs # {}
    THEN Outcome(Raise("TypeError"), st, lock)
    ELSE confirm_device(st, lock, nowdt, kwargs.device_id, kwargs.token,
                        kwargs.pin, kwargs.r, kwargs.g, kwargs.b,
                        BodyGet(kwargs, "ip"))

\* The keyword arguments confirm_pairing calls confirm_device with.
ConfirmKwargs(body, client_host) ==
    [device_id |-> BodyGet(body, "device_id"),
     token     |-> BodyGet(body, "token"),
     ip        |-> client_host]

\* confirm_pairing: status and JSON of the response, and what the registry
\* call left behind.  An exception that is not an HTTPException is answered
\* with 500.
confirm_pairing(st, lock, nowdt, body, client_host) ==
    IF BodyLacks(body, "device_id") \/ BodyLacks(body, "token")
    THEN [status |-> 400, kind |-> "HTTPException", response |-> EmptyDict,
          store |-> st, lockout |-> lock]
    ELSE LET res == call_confirm_device(st, lock, nowdt,
                                        ConfirmKwargs(body, client_host))
         IN  IF res.kind = "ok"
             THEN [status |-> 200, kind |-> "ok",
                   response |-> [status |-> "paired"],
                   store |-> res.store, lockout |-> res.lockout]
             ELSE [status |-> 500, kind |-> res.kind, response |-> EmptyDict,
                   store |-> res.store, lockout |-> res.lockout]

NoRequest ==
    [host |-> <<>>, http_port |-> 0, route |-> "none", request |-> EmptyDict,
     status |-> 0, kind |-> "none", response |-> EmptyDict]

WebIdle == web = NoRequest

----------------------------------------------------------------------------
(* The producer side of the audio path: audio_ingest (server/web.py) and   *)
(* recv_audio with OpusCodec (server/audio.py).                            *)
(*                                                                         *)
(* A payload is the list of its codings, outermost first: <<"pcm">> is a   *)
(* frame of raw PCM, <<"opus", "pcm">> an Opus packet that encodes one.    *)

\* Binary messages one producer sends in a run.
MaxFrames == 2

\* audio.py:110  sample_rate = 16000
DefaultSampleRate == 16000

\* audio.py:41, 46  frame_size: int = 320
FrameSize == 320

\* Sampling rates opuslib.Encoder / Decoder accept; any other raises.
OpusRates == {8000, 12000, 16000, 24000, 48000}

\* An Opus frame lasts 2.5, 5, 10, 20, 40 or 60 ms: the frame_size values
\* the encoder accepts at a sampling rate; any other raises.
OpusFrameSizes(sample_rate) ==
    {(sample_rate * tenths) \div 10000 : tenths \in {25, 50, 100, 200, 400, 600}}

PcmFrame == <<"pcm">>

OpusPacket == <<"opus", "pcm">>

Bodies == {PcmFrame, OpusPacket}

\* Format names a control frame may carry: the two of the protocol and one
\* the server knows nothing of.
Formats == {"pcm", "opus", "flac"}

\* sample_rate values a control frame may carry.
SampleRates == {DefaultSampleRate, 44100, 48000}

\* The JSON objects a producer may send as its first message.
Metadatas ==
    {[format |-> f, target_format |-> t, sample_rate |-> r] :
        f \in Formats, t \in {"pcm", "opus"}, r \in SampleRates}
    \cup {[format |-> f] : f \in {"opus"}}
    \cup {[target_format |-> t] : t \in {"opus"}}
    \cup {EmptyDict}

\* metadata.get(key, default)
MetaGet(metadata, key, default) ==
    IF key \in DOMAIN metadata THEN metadata[key] ELSE default

\* OpusCodec(sample_rate=sample_rate, enabled=True)
OpusCodec(sample_rate) ==
    IF sample_rate \in OpusRates
    THEN Ok([sample_rate |-> sample_rate, enabled |-> TRUE])
    ELSE Raise("OpusError")

\* OpusCodec.encode(pcm): the bytes are taken for PCM samples.
encode(codec, pcm) ==
    IF ~codec.enabled THEN Ok(pcm)
    ELSE IF FrameSize \in OpusFrameSizes(codec.sample_rate)
         THEN Ok(<<"opus">> \o pcm)
    ELSE Raise("OpusError")

\* OpusCodec.decode(payload): bytes that are no Opus packet raise.
decode(codec, payload) ==
    IF ~codec.enabled THEN Ok(payload)
    ELSE IF Head(payload) = "opus" THEN Ok(Tail(payload))
    ELSE Raise("OpusError")

\* codec: OpusCodec | None = None
NoCodec == <<>>

\* recv_audio, the control frame: the formats, and the codec when they
\* differ.
negotiate(metadata) ==
    LET source_format == MetaGet(metadata, "format", "pcm")
        target_format == MetaGet(metadata, "target_format", source_format)
        sample_rate   == MetaGet(metadata, "sample_rate", DefaultSampleRate)
        made          == IF source_format # target_format
                         THEN OpusCodec(sample_rate) ELSE Ok(None)
    IN  [kind |-> made.kind, source_format |-> source_format,
         target_format |-> target_format,
         codec |-> IF source_format # target_format /\ made.kind = "ok"
                   THEN <<made.value>> ELSE NoCodec]

\* A slip: the codec is used whenever there is one.
transcode_any_formats(codec, source_format, target_format, payload) ==
    IF codec # NoCodec /\ target_format = "opus"
    THEN encode(codec[1], payload)
    ELSE IF codec # NoCodec /\ target_format = "pcm"
         THEN decode(codec[1], payload)
    ELSE Ok(payload)

\* recv_audio, the loop: what becomes of a payload before the broadcast.
transcode(codec, source_format, target_format, payload) ==
    IF codec # NoCodec /\ source_format = "pcm" /\ target_format = "opus"
    THEN encode(codec[1], payload)
    ELSE IF codec # NoCodec /\ source_format = "opus"
            /\ target_format = "pcm"
         THEN decode(codec[1], payload)
    ELSE Ok(payload)

\* The handler of a producer connection: where it is, what its first
\* message was, the formats and the codec, the binary messages it has
\* received, and how it ended.
NoIngest ==
    [pc |-> "none", first |-> "none", source_format |-> "pcm",
     target_format |-> "pcm", codec |-> NoCodec, heard |-> <<>>,
     exit |-> "none"]

\* The binary messages each producer sends in a run: one producer sending
\* MaxFrames, or two producers of one channel sending one each.
SoloPlan ==
    [streams |-> [p \in Producers |-> IF p = "p1" THEN MaxFrames ELSE 0],
     takes |-> 0, exits |-> 0]

DuoPlan ==
    [streams |-> [p \in Producers |-> IF ProducerChannel[p] = "A" THEN 1
                                      ELSE 0],
     takes |-> 0, exits |-> 0]

IngestPlans == {SoloPlan, DuoPlan}

\* One call of router.broadcast by recv_audio: the message received and the
\* payload handed to the router.
Aired(got, payload) == [got |-> got, put |-> payload]

----------------------------------------------------------------------------
(* The subsystems above at rest.                                           *)

\* Threads that call the registry: the http and the https server thread,
\* and a third, so that more than two calls can overlap.
WorkerThreads == {"t1", "t2", "t3"}

\* A registry call in progress on a thread: where it is, its arguments, the
\* payload it is about to save, and whether it started after a confirm_device
\* with the same token had returned.
NoThreadCall ==
    [pc |-> "idle", op |-> "none", device_id |-> None, token |-> 0,
     pin |-> <<>>, dl |-> <<0, 0, 0>>, ip |-> None, pending |-> EmptyStore,
     after |-> FALSE]

IngestIdle ==
    /\ ingest = [p \in Producers |-> NoIngest]
    /\ aired = [p \in Producers |-> <<>>]

ThreadsIdle ==
    /\ threads = [t \in WorkerThreads |-> NoThreadCall]
    /\ written = {}
    /\ calls = 0

\* No context is inside a method of the hub.
NoHubOp == [pc |-> "idle", op |-> "none", websocket |-> None,
            device_id |-> None, token |-> <<>>]

\* DeviceHub.__init__: self._lock = threading.Lock()
HubLockIdle ==
    /\ hub_lock = Free
    /\ hubop = [x \in Contexts |-> NoHubOp]

ExtIdle == WebIdle /\ IngestIdle /\ ThreadsIdle /\ HubLockIdle

----------------------------------------------------------------------------
(* The registry used by one caller at a time.                              *)

NoCall ==
    [op |-> "none", device_id |-> None, token |-> 0, pin |-> <<>>,
     credential |-> <<>>, kind |-> "none", value |-> ErrValue,
     valid |-> FALSE]

NoSeedIn == [issued_at |-> StartTime, r |-> 0, g |-> 0, b |-> 0]

NoSeedOut == [kind |-> "none", value |-> ErrValue]

RegistryInit ==
    /\ now = 0
    /\ store = EmptyStore
    /\ lockout_until = NoLockout
    /\ minted = 0
    /\ issued = EmptyDict
    /\ granted = [d \in DeviceIds |-> <<>>]
    /\ confirmed = {}
    /\ failed = {}
    /\ last = NoCall

Init ==
    /\ RegistryInit /\ seedIn = NoSeedIn /\ seedOut = NoSeedOut
    /\ AudioIdle
    /\ HubIdle
    /\ ExtIdle

\* Time passes between calls.
Tick ==
    /\ now + TickMinutes <= MaxTicks * TickMinutes
    /\ now' = now + TickMinutes
    /\ UNCHANGED <<store, lockout_until, minted, issued, granted, confirmed,
                   failed, last, seedIn, seedOut>>
    /\ UNCHANGED <<audioVars, hubVars, extVars>>

IssueToken(ttl_minutes) ==
    /\ minted < MaxTokens
    /\ \E res \in {issue_token(store, ClockAt(now), minted + 1, ttl_minutes)} :
           /\ store' = res.store
           /\ issued' = SetKey(issued, res.token, res.issued_at)
           /\ last' = [NoCall EXCEPT !.op = "issue_token", !.kind = "ok",
                                     !.token = res.token, !.pin = res.pin]
    /\ minted' = minted + 1
    /\ UNCHANGED <<now, lockout_until, granted, confirmed, failed, seedIn,
                   seedOut>>
    /\ UNCHANGED <<audioVars, hubVars, extVars>>

ConfirmDevice(device_id, token, pin, dl, ip) ==
    /\ \E res \in {confirm_device(store, lockout_until, ClockAt(now),
                                   device_id, token, pin, dl[1], dl[2], dl[3],
                                   ip)} :
           /\ store' = res.store
           /\ lockout_until' = res.lockout
           /\ granted' = IF res.kind = "ok"
                         THEN [granted EXCEPT ![device_id] =
                                                  Append(@, res.value)]
                         ELSE granted
           /\ confirmed' = IF res.kind = "ok" THEN confirmed \cup {token}
                           ELSE confirmed
           /\ failed' = IF res.kind \in {"InvalidPin", "TokenExpired"}
                        THEN failed \cup {token} ELSE failed
           /\ last' = [NoCall EXCEPT !.op = "confirm_device",
                          !.device_id = device_id, !.token = token,
                          !.pin = pin, !.kind = res.kind,
                          !.value = res.value]
    /\ UNCHANGED <<now, minted, issued, seedIn, seedOut>>
    /\ UNCHANGED <<audioVars, hubVars, extVars>>

ValidateDevice(device_id, credential) ==
    /\ last' = [NoCall EXCEPT !.op = "validate_device", !.kind = "ok",
                   !.device_id = device_id, !.credential = credential,
                   !.valid = validate_device(store, device_id, credential)]
    /\ UNCHANGED <<now, store, lockout_until, minted, issued, granted,
                   confirmed, failed, seedIn, seedOut>>
    /\ UNCHANGED <<audioVars, hubVars, extVars>>

UpdateDeviceIp(device_id, ip) ==
    /\ store' = update_device_ip(store, device_id, ip)
    /\ last' = [NoCall EXCEPT !.op = "update_device_ip", !.kind = "ok",
                   !.device_id = device_id]
    /\ UNCHANGED <<now, lockout_until, minted, issued, granted, confirmed,
                   failed, seedIn, seedOut>>
    /\ UNCHANGED <<audioVars, hubVars, extVars>>

Next ==
    \/ Tick
    \/ \E ttl \in TtlChoices : IssueToken(ttl)
    \/ \E d \in DeviceIds, t \in PresentedTokens(minted), dl \in DeltaChoices,
          ip \in ConfirmIps :
            \E p \in PinChoices(store, t) : ConfirmDevice(d, t, p, dl, ip)
    \/ \E d \in DeviceIds : \E c \in CredentialChoices(store, d) :
            ValidateDevice(d, c)
    \/ \E d \in DeviceIds, ip \in UpdateIps : UpdateDeviceIp(d, ip)

Spec == Init /\ [][Next]_vars

----------------------------------------------------------------------------
(* compute_pairing_seed called on its own.                                 *)

SeedTimestamps ==
    {StartTime, DateTime(2025, 1, 2, 1, 1, 1),
     DateTime(1999, 12, 31, 23, 59, 59)}

SeedInputs ==
    {[issued_at |-> ts, r |-> r, g |-> g, b |-> b] :
        ts \in SeedTimestamps, r \in -MaxDelta..MaxDelta,
        g \in -MaxDelta..MaxDelta, b \in -MaxDelta..MaxDelta}
    \cup {[issued_at |-> StartTime, r |-> 7, g |-> -1, b |-> 3]}

SeedInit ==
    /\ RegistryInit /\ seedIn \in SeedInputs /\ seedOut = NoSeedOut
    /\ AudioIdle
    /\ HubIdle
    /\ ExtIdle

CallComputeSeed ==
    /\ seedOut.kind = "none"
    /\ seedOut' = compute_pairing_seed(seedIn.issued_at, seedIn.r, seedIn.g,
                                       seedIn.b)
    /\ UNCHANGED <<now, store, lockout_until, minted, issued, granted,
                   confirmed, failed, last, seedIn>>
    /\ UNCHANGED <<audioVars, hubVars, extVars>>

SeedNext == CallComputeSeed

SeedSpec == SeedInit /\ [][SeedNext]_vars

----------------------------------------------------------------------------
(* The audio router under concurrent consumer and producer connections.    *)

\* audio_ws: accept, then queue = await router.register(channel).
Connect(c, channel) ==
    /\ consumer[c].pc = "none"
    /\ router_lock = Free
    /\ sources' = register(sources, channel, c)
    /\ consumer' = [consumer EXCEPT ![c] = [NoConsumer EXCEPT
                        !.pc = "pumping", !.channel = channel]]
    /\ UNCHANGED <<queues, router_lock, received, inflight, sent, quota>>

\* pump_audio: payload = await queue.get()
Take(c) ==
    /\ consumer[c].pc = "pumping"
    /\ queues[c] # <<>>
    /\ TakesSoFar(consumer, received) < quota.takes
    /\ consumer' = [consumer EXCEPT ![c].pc = "sending",
                                    ![c].holding = Head(queues[c])]
    /\ queues' = [queues EXCEPT ![c] = Tail(@)]
    /\ UNCHANGED <<sources, router_lock, received, inflight, sent, quota>>

\* pump_audio: await websocket.send_bytes(payload) returns.
SendBytes(c) ==
    /\ consumer[c].pc = "sending"
    /\ received' = [received EXCEPT ![c] = Append(@, consumer[c].holding)]
    /\ consumer' = [consumer EXCEPT ![c].pc = "pumping",
                                    ![c].holding = NoPayload]
    /\ UNCHANGED <<sources, queues, router_lock, inflight, sent, quota>>

\* audio_ws ends: the await it is in raises, the handler's cleanup runs.
\* The handler held the one reference a reader has to its queue: what the
\* queue held is out of reach from here on, and is forgotten.
HandlerExit(c, cause) ==
    /\ cause \in ExitCauses(consumer[c].pc)
    /\ ExitsSoFar(consumer) < quota.exits
    /\ router_lock = Free
    /\ sources' = audio_ws_exit(sources, consumer[c].channel, c, cause)
    /\ consumer' = [consumer EXCEPT ![c].pc = "closed", ![c].exit = cause,
                                    ![c].holding = NoPayload]
    /\ queues' = [queues EXCEPT ![c] = <<>>]
    /\ UNCHANGED <<router_lock, received, inflight, sent, quota>>

\* router.unregister(channel, queue) called for a queue that is not
\* registered on the named channel (audio_ws, the one caller in the program,
\* names its own queue and channel: that call is HandlerExit).
UnregisterCall(channel, c) ==
    /\ consumer[c].pc # "none"
    /\ c \notin Consumers_of(sources, channel)
    /\ router_lock = Free
    /\ sources' = unregister(sources, channel, c)
    /\ UNCHANGED <<queues, router_lock, consumer, received, inflight, sent,
                   quota>>

\* recv_audio receives a payload and calls broadcast, which takes its
\* snapshot of the channel's consumers under the lock.
Broadcast(p) ==
    /\ inflight[p].pending = {}
    /\ sent[p] < quota.streams[p]
    /\ router_lock = Free
    /\ inflight' = [inflight EXCEPT ![p] =
                        [payload |-> Payload(p, sent[p] + 1),
                         pending |-> Snapshot(sources, ProducerChannel[p])]]
    /\ router_lock' = LockAfterSnapshot(p)
    /\ sent' = [sent EXCEPT ![p] = @ + 1]
    /\ UNCHANGED <<sources, queues, consumer, received, quota>>

\* broadcast, one turn of its loop: drop the oldest entry of a full queue,
\* then await queue.put(payload), which waits while the queue is full.
Deliver(p, c) ==
    /\ c \in inflight[p].pending
    /\ ~Full(DropOldest(queues[c]))
    /\ queues' = [queues EXCEPT ![c] =
                      put(DropOldest(@), inflight[p].payload)]
    /\ inflight' = [inflight EXCEPT ![p].pending = @ \ {c}]
    /\ UNCHANGED <<sources, router_lock, consumer, received, sent, quota>>

PairingUntouched ==
    UNCHANGED <<now, store, lockout_until, minted, issued, granted, confirmed,
                failed, last, seedIn, seedOut>>

RouterOnly == PairingUntouched /\ UNCHANGED <<hubVars, extVars>>

RouterInit ==
    /\ RegistryInit /\ seedIn = NoSeedIn /\ seedOut = NoSeedOut
    /\ AudioConstructed
    /\ quota \in StreamPlans
    /\ HubIdle
    /\ ExtIdle

RouterNext ==
    \/ \E c \in Consumers, ch \in Channels : Connect(c, ch) /\ RouterOnly
    \/ \E c \in Consumers : Take(c) /\ RouterOnly
    \/ \E c \in Consumers : SendBytes(c) /\ RouterOnly
    \/ \E c \in Consumers : \E cause \in ExitCauses(consumer[c].pc) :
            HandlerExit(c, cause) /\ RouterOnly
    \/ \E c \in Consumers, ch \in Channels :
            UnregisterCall(ch, c) /\ RouterOnly
    \/ \E p \in Producers : Broadcast(p) /\ RouterOnly
    \/ \E p \in Producers, c \in Consumers : Deliver(p, c) /\ RouterOnly

RouterSpec == RouterInit /\ [][RouterNext]_vars

----------------------------------------------------------------------------
(* The device hub under device connections and notifications, over a       *)
(* registry in which devices get paired.                                   *)

\* What a connecting device may have in its query: no token, an empty one,
\* a seed the registry holds, or its own seed written with a leading zero.
DeviceTokens(st, device_id) ==
    {<<>>, << <<>> >>}
    \cup {<<c>> : c \in CredentialChoices(st, device_id) \ {<<"1">>}}

\* The device that scans the QR code of each token.
TokenDevice(t) == IF t = 1 THEN "device-123" ELSE "device-456"

AsyncOps == {"notify_all", "notify_device"}

ThreadsafeOps == {"notify_all_threadsafe", "notify_device_threadsafe"}

\* A send_json made: on which websocket, in which context, by which
\* operation of the hub.
Send(websocket, context, op) ==
    [conn |-> websocket, ctx |-> context, via |-> op]

\* device_ws up to its receive loop: close(code=1008) and return, or accept
\* and register.
DeviceConnect(w, device_id, token) ==
    /\ conn[w].state = "new"
    /\ IF device_ws_admits(store, device_id, token)
       THEN /\ conn' = [conn EXCEPT ![w] =
                           [state |-> "open", device_id |-> device_id,
                            token |-> token, accepted |-> TRUE, code |-> 0]]
            /\ hub_devices' = hub_register(hub_devices, device_id, w,
                                           ConnLoop[w])
       ELSE /\ conn' = [conn EXCEPT ![w] =
                           [state |-> "rejected", device_id |-> device_id,
                            token |-> token, accepted |-> FALSE,
                            code |-> PolicyViolation]]
            /\ UNCHANGED hub_devices
    /\ UNCHANGED <<handoff, caller, sends, notes>>

\* The client of an open connection goes away.
ClientGone(w) ==
    /\ conn[w].state = "open"
    /\ conn' = [conn EXCEPT ![w].state = "dead"]
    /\ UNCHANGED <<hub_devices, handoff, caller, sends, notes>>

\* device_ws: receive_text raises WebSocketDisconnect, the handler
\* unregisters its device_id.
DeviceDisconnect(w) ==
    /\ conn[w].state = "dead"
    /\ conn' = [conn EXCEPT ![w].state = "closed"]
    /\ hub_devices' = hub_unregister(hub_devices, conn[w].device_id)
    /\ UNCHANGED <<handoff, caller, sends, notes>>

\* notify_all / notify_device up to the first send: the snapshot.
StartNotify(k, op, snap) ==
    /\ caller[k].status = "idle"
    /\ notes < MaxNotes
    /\ notes' = notes + 1
    /\ caller' = [caller EXCEPT ![k] =
                     IF snap = <<>> THEN NoNotify
                     ELSE [status |-> "notifying", op |-> op, todo |-> snap]]
    /\ UNCHANGED <<hub_devices, conn, handoff, sends>>

NotifyAll(k) == StartNotify(k, "notify_all", hub_values(hub_devices))

NotifyDevice(k, device_id) ==
    StartNotify(k, "notify_device", hub_get(hub_devices, device_id))

\* notify_all / notify_device: one await of device.websocket.send_json.
SendNext(k) ==
    /\ caller[k].status = "notifying"
    /\ LET device == Head(caller[k].todo)
       IN  \E ok \in SendOutcomes(conn[device.websocket].state, k,
                                  ConnLoop[device.websocket]) :
               /\ sends' = sends \cup {Send(device.websocket, k,
                                            caller[k].op)}
               /\ caller' = [caller EXCEPT ![k] =
                                IF ok THEN notify_send_done(@)
                                ELSE notify_send_failed(@)]
    /\ UNCHANGED <<hub_devices, conn, handoff, notes>>

\* The coroutines of snap handed to context x by a call made in context k.
HandedTo(x, k, op, snap) ==
    LET mine == SelectSeq(snap, LAMBDA e : RunInLoop(e, k) = x)
    IN  [i \in 1..Len(mine) |-> [websocket |-> mine[i].websocket, op |-> op]]

\* notify_all_threadsafe / notify_device_threadsafe, whole: the snapshot,
\* then one run_coroutine_threadsafe per device.
HandOff(k, op, snap) ==
    /\ caller[k].status = "idle"
    /\ notes < MaxNotes
    /\ notes' = notes + 1
    /\ handoff' = [x \in Contexts |->
                      handoff[x] \o HandedTo(x, k, op, snap)]
    /\ UNCHANGED <<hub_devices, conn, caller, sends>>

NotifyAllThreadsafe(k) ==
    HandOff(k, "notify_all_threadsafe", hub_values(hub_devices))

NotifyDeviceThreadsafe(k, device_id) ==
    HandOff(k, "notify_device_threadsafe", hub_get(hub_devices, device_id))

\* An event loop runs a coroutine that was handed to it; what the send
\* raises stays in the future nobody reads.
RunHandoff(x) ==
    /\ x \in Loops
    /\ handoff[x] # <<>>
    /\ LET job == Head(handoff[x])
       IN  \E ok \in SendOutcomes(conn[job.websocket].state, x,
                                  ConnLoop[job.websocket]) :
               sends' = sends \cup {Send(job.websocket, x, job.op)}
    /\ handoff' = [handoff EXCEPT ![x] = Tail(@)]
    /\ UNCHANGED <<hub_devices, conn, caller, notes>>

HubOnly == PairingUntouched /\ UNCHANGED <<audioVars, extVars>>

\* No device has tried to connect yet and no notification has been issued:
\* in these runs the devices are paired first.
HubQuiet == notes = 0 /\ \A w \in DeviceConns : conn[w].state = "new"

HubNext ==
    \/ HubQuiet /\ IssueToken(DefaultTtlMinutes)
    \/ \E ip \in ConfirmIps : \E t \in DOMAIN store.tokens :
          /\ HubQuiet
          /\ ConfirmDevice(TokenDevice(t), t, store.tokens[t].pin,
                           <<7, -1, 3>>, ip)
    \/ \E w \in DeviceConns : \E token \in DeviceTokens(store, ConnDevice[w]) :
          DeviceConnect(w, ConnDevice[w], token) /\ HubOnly
    \/ \E w \in DeviceConns : ClientGone(w) /\ HubOnly
    \/ \E w \in DeviceConns : DeviceDisconnect(w) /\ HubOnly
    \/ \E k \in Callers : NotifyAll(k) /\ HubOnly
    \/ \E k \in Callers, d \in DeviceIds : NotifyDevice(k, d) /\ HubOnly
    \/ \E k \in Callers : SendNext(k) /\ HubOnly
    \/ \E k \in Callers : NotifyAllThreadsafe(k) /\ HubOnly
    \/ \E k \in Callers, d \in DeviceIds :
          NotifyDeviceThreadsafe(k, d) /\ HubOnly
    \/ \E x \in Contexts : RunHandoff(x) /\ HubOnly

HubSpec == Init /\ [][HubNext]_vars

----------------------------------------------------------------------------
(* The hub with its lock: every method enters `with self._lock`, reads or  *)
(* writes the dict there and leaves the block; the sends come after.  A    *)
(* context inside the block runs nothing else until it has left it.  The   *)
(* connections followed here are those device_ws admits: one it refuses    *)
(* never reaches the hub.                                                  *)

HubOps ==
    {"register", "unregister", "count", "notify_all", "notify_device",
     "notify_all_threadsafe", "notify_device_threadsafe"}

LockFrame == PairingUntouched /\ UNCHANGED <<audioVars, web, ingest, aired,
                                             threads, written, calls>>

\* `with self._lock:` entered by context x in a method of the hub.
HubAcquire(x, op, w, device_id, token) ==
    /\ hub_lock = Free
    /\ hubop[x].pc = "idle"
    /\ hub_lock' = x
    /\ hubop' = [hubop EXCEPT ![x] =
                    [pc |-> "locked", op |-> op, websocket |-> w,
                     device_id |-> device_id, token |-> token]]
    /\ UNCHANGED hubVars

\* device_ws has accepted the connection and calls register.
AcquireRegister(w, token) ==
    /\ conn[w].state = "new"
    /\ device_ws_admits(store, ConnDevice[w], token)
    /\ HubAcquire(ConnLoop[w], "register", w, ConnDevice[w], token)

\* device_ws has caught WebSocketDisconnect and calls unregister.
AcquireUnregister(w) ==
    /\ conn[w].state = "dead"
    /\ HubAcquire(ConnLoop[w], "unregister", w, conn[w].device_id, <<>>)

\* A notify method called in context k.
AcquireNotify(k, op, device_id) ==
    /\ caller[k].status = "idle"
    /\ notes < MaxNotes
    /\ HubAcquire(k, op, None, device_id, <<>>)

AcquireCount(x) == HubAcquire(x, "count", None, None, <<>>)

\* The body of the `with` block, and the block left.
HubAccess(x) ==
    /\ hub_lock = x
    /\ hubop[x].pc = "locked"
    /\ LET o == hubop[x]
       IN  /\ CASE o.op = "register" ->
                     DeviceConnect(o.websocket, o.device_id, o.token)
                [] o.op = "unregister" -> DeviceDisconnect(o.websocket)
                [] o.op = "count" -> UNCHANGED hubVars
                [] o.op = "notify_all" -> NotifyAll(x)
                [] o.op = "notify_device" -> NotifyDevice(x, o.device_id)
                [] o.op = "notify_all_threadsafe" -> NotifyAllThreadsafe(x)
                [] o.op = "notify_device_threadsafe" ->
                     NotifyDeviceThreadsafe(x, o.device_id)
           /\ hub_lock' = HubLockAfter(o.op, x)
    /\ hubop' = [hubop EXCEPT ![x] = NoHubOp]

\* A send awaited by notify_all / notify_device in context k returns or
\* raises.
LockedSendNext(k) ==
    /\ hubop[k].pc = "idle"
    /\ SendNext(k)
    /\ UNCHANGED <<hub_lock, hubop>>

LockedRunHandoff(x) ==
    /\ hubop[x].pc = "idle"
    /\ RunHandoff(x)
    /\ UNCHANGED <<hub_lock, hubop>>

LockedClientGone(w) == ClientGone(w) /\ UNCHANGED <<hub_lock, hubop>>

LockNext ==
    \/ HubQuiet /\ hub_lock = Free /\ IssueToken(DefaultTtlMinutes)
    \/ \E ip \in ConfirmIps : \E t \in DOMAIN store.tokens :
          /\ HubQuiet /\ hub_lock = Free
          /\ ConfirmDevice(TokenDevice(t), t, store.tokens[t].pin,
                           <<7, -1, 3>>, ip)
    \/ \E w \in DeviceConns : \E token \in DeviceTokens(store, ConnDevice[w]) :
          AcquireRegister(w, token) /\ LockFrame
    \/ \E w \in DeviceConns : AcquireUnregister(w) /\ LockFrame
    \/ \E k \in Callers, op \in AsyncOps \cup ThreadsafeOps, d \in DeviceIds :
          AcquireNotify(k, op, d) /\ LockFrame
    \/ \E x \in Contexts : AcquireCount(x) /\ LockFrame
    \/ \E x \in Contexts : HubAccess(x) /\ LockFrame
    \/ \E k \in Callers : LockedSendNext(k) /\ LockFrame
    \/ \E x \in Contexts : LockedRunHandoff(x) /\ LockFrame
    \/ \E w \in DeviceConns : LockedClientGone(w) /\ LockFrame

LockSpec == Init /\ [][LockNext]_vars

----------------------------------------------------------------------------
(* The pairing endpoints of the app, one request at a time, and            *)
(* build_qr_payload called as the test calls it.                           *)

\* JSON bodies a client may post to /v1/pairing/confirm: with all the fields
\* of the protocol, and with device_id or token left out.  A token is named
\* by its serial number.
ConfirmBodies(st, n) ==
    {[device_id |-> d, token |-> t, pin |-> pn, r |-> dl[1], g |-> dl[2],
      b |-> dl[3]] :
        d \in DeviceIds, dl \in DeltaChoices,
        pn \in UNION {PinChoices(st, u) : u \in PresentedTokens(n)},
        t \in PresentedTokens(n)}
    \cup {[device_id |-> d] : d \in DeviceIds}
    \cup {[token |-> t, pin |-> WrongPin] : t \in PresentedTokens(n)}

WebFrame ==
    UNCHANGED <<seedIn, seedOut, audioVars, hubVars, ingest, aired, threads,
                written, calls, hub_lock, hubop>>

\* POST /v1/pairing/request: issue_token(), then build_qr_payload.
RequestPairing ==
    /\ minted < MaxTokens
    /\ \E res \in {issue_token(store, ClockAt(now), minted + 1,
                               DefaultTtlMinutes)} :
         \E token \in {PairingToken(res.token, res.issued_at, res.expires_at,
                                    res.pin)} :
           /\ store' = res.store
           /\ issued' = SetKey(issued, res.token, res.issued_at)
           /\ last' = [NoCall EXCEPT !.op = "issue_token", !.kind = "ok",
                                     !.token = res.token, !.pin = res.pin]
           /\ web' = [web EXCEPT
                        !.route = "request_pairing",
                        !.request = [host |-> web.host,
                                     http_port |-> web.http_port,
                                     token |-> token],
                        !.status = 200,
                        !.kind = "ok",
                        !.response =
                            [token |-> token.token,
                             payload |-> build_qr_payload(web.host,
                                                          web.http_port,
                                                          token)]]
    /\ minted' = minted + 1
    /\ UNCHANGED <<now, lockout_until, granted, confirmed, failed>>
    /\ WebFrame

\* build_qr_payload("127.0.0.1", 80, FakeToken()) and the like.
CallBuildQr(host, http_port) ==
    /\ web' = [web EXCEPT
                 !.route = "build_qr_payload",
                 !.request = [host |-> host, http_port |-> http_port,
                              token |-> FakeToken],
                 !.status = 0,
                 !.kind = "ok",
                 !.response =
                     [token |-> FakeToken.token,
                      payload |-> build_qr_payload(host, http_port,
                                                   FakeToken)]]
    /\ UNCHANGED <<now, store, lockout_until, minted, issued, granted,
                   confirmed, failed, last>>
    /\ WebFrame

\* POST /v1/pairing/confirm from client_host.
ConfirmPairing(body, client_host) ==
    /\ \E res \in {confirm_pairing(store, lockout_until, ClockAt(now), body,
                                   client_host)} :
           /\ store' = res.store
           /\ lockout_until' = res.lockout
           /\ confirmed' = IF res.kind = "ok"
                           THEN confirmed \cup {body.token} ELSE confirmed
           /\ failed' = IF res.kind \in {"InvalidPin", "TokenExpired"}
                        THEN failed \cup {body.token} ELSE failed
           /\ web' = [web EXCEPT
                        !.route = "confirm_pairing",
                        !.request = body,
                        !.status = res.status,
                        !.kind = res.kind,
                        !.response = res.response]
    /\ UNCHANGED <<now, minted, issued, granted, last>>
    /\ WebFrame

WebInit ==
    /\ RegistryInit /\ seedIn = NoSeedIn /\ seedOut = NoSeedOut
    /\ AudioIdle
    /\ HubIdle
    /\ IngestIdle /\ ThreadsIdle /\ HubLockIdle
    /\ \E host \in Hosts, http_port \in HttpPorts :
           web = [NoRequest EXCEPT !.host = host, !.http_port = http_port]

WebNext ==
    \/ Tick
    \/ RequestPairing
    \/ \E host \in Hosts, http_port \in HttpPorts :
           CallBuildQr(host, http_port)
    \/ \E ip \in ConfirmIps : \E body \in ConfirmBodies(store, minted) :
           ConfirmPairing(body, ip)

WebSpec == WebInit /\ [][WebNext]_vars

----------------------------------------------------------------------------
(* Producer connections feeding the router.                                *)

IngestFrame ==
    /\ PairingUntouched
    /\ UNCHANGED <<hubVars, web, threads, written, calls, hub_lock, hubop>>

\* audio_ingest: websocket.accept(), then recv_audio waits for the first
\* message.
IngestConnect(p) ==
    /\ ingest[p].pc = "none"
    /\ quota.streams[p] > 0
    /\ ingest' = [ingest EXCEPT ![p].pc = "first"]
    /\ UNCHANGED <<audioVars, aired>>

\* router.broadcast(channel, payload) called by recv_audio for the message
\* got: the snapshot of the channel's consumers is taken under the lock.
IngestBroadcast(p, got, payload) ==
    /\ router_lock = Free
    /\ inflight' = [inflight EXCEPT ![p] =
                        [payload |-> [src |-> p, seq |-> sent[p] + 1,
                                      body |-> payload],
                         pending |-> Snapshot(sources, ProducerChannel[p])]]
    /\ router_lock' = LockAfterSnapshot(p)
    /\ sent' = [sent EXCEPT ![p] = @ + 1]
    /\ aired' = [aired EXCEPT ![p] = Append(@, Aired(got, payload))]
    /\ UNCHANGED <<sources, queues, consumer, received, quota>>

\* The first message is a text frame: the control frame.  An exception of
\* the codec leaves recv_audio and audio_ingest.
FirstText(p, metadata) ==
    /\ ingest[p].pc = "first"
    /\ \E res \in {negotiate(metadata)} :
           ingest' = [ingest EXCEPT
                        ![p].first = "text",
                        ![p].source_format = res.source_format,
                        ![p].target_format = res.target_format,
                        ![p].codec = res.codec,
                        ![p].pc = IF res.kind = "ok" THEN "loop" ELSE "ended",
                        ![p].exit = IF res.kind = "ok" THEN "none"
                                    ELSE res.kind]
    /\ UNCHANGED <<audioVars, aired>>

\* The first message is a binary frame: it is broadcast as it is.
FirstBytes(p, body) ==
    /\ ingest[p].pc = "first"
    /\ ingest' = [ingest EXCEPT ![p].first = "bytes", ![p].pc = "loop",
                                ![p].heard = Append(@, body)]
    /\ IngestBroadcast(p, body, body)

\* The loop of recv_audio: the previous broadcast has returned, a binary
\* message arrives, is transcoded and broadcast.  An exception of the codec
\* leaves recv_audio and audio_ingest.
NextBytes(p, body) ==
    /\ ingest[p].pc = "loop"
    /\ inflight[p].pending = {}
    /\ Len(ingest[p].heard) < quota.streams[p]
    /\ \E res \in {transcode(ingest[p].codec, ingest[p].source_format,
                             ingest[p].target_format, body)} :
           IF res.kind = "ok"
           THEN /\ ingest' = [ingest EXCEPT ![p].heard = Append(@, body)]
                /\ IngestBroadcast(p, body, res.value)
           ELSE /\ ingest' = [ingest EXCEPT ![p].heard = Append(@, body),
                                            ![p].pc = "ended",
                                            ![p].exit = res.kind]
                /\ UNCHANGED <<audioVars, aired>>

\* The producer goes away: receive_bytes raises WebSocketDisconnect, which
\* audio_ingest catches.
IngestDisconnect(p) ==
    /\ ingest[p].pc = "loop"
    /\ inflight[p].pending = {}
    /\ ingest' = [ingest EXCEPT ![p].pc = "ended", ![p].exit = "disconnect"]
    /\ UNCHANGED <<audioVars, aired>>

\* A listener of the channel.
IngestListen(c, channel) ==
    /\ Connect(c, channel)
    /\ UNCHANGED <<ingest, aired>>

\* One queue of a broadcast's snapshot is served.
IngestDeliver(p, c) ==
    /\ Deliver(p, c)
    /\ UNCHANGED <<ingest, aired>>

IngestInit ==
    /\ RegistryInit /\ seedIn = NoSeedIn /\ seedOut = NoSeedOut
    /\ AudioConstructed
    /\ quota \in IngestPlans
    /\ HubIdle
    /\ ExtIdle

IngestNext ==
    \/ \E p \in Producers : IngestConnect(p) /\ IngestFrame
    \/ \E p \in Producers, metadata \in Metadatas :
          FirstText(p, metadata) /\ IngestFrame
    \/ \E p \in Producers, body \in Bodies :
          FirstBytes(p, body) /\ IngestFrame
    \/ \E p \in Producers, body \in Bodies :
          NextBytes(p, body) /\ IngestFrame
    \/ \E p \in Producers : IngestDisconnect(p) /\ IngestFrame
    \/ \E c \in Consumers, channel \in Channels :
          IngestListen(c, channel) /\ IngestFrame
    \/ \E p \in Producers, c \in Consumers :
          IngestDeliver(p, c) /\ IngestFrame

IngestSpec == IngestInit /\ [][IngestNext]_vars

----------------------------------------------------------------------------
(* The registry called from several threads at once.  JsonStore.load and   *)
(* JsonStore.save each run under the store's lock; nothing holds between a *)
(* _load and the _save that follows it.  What a call computes between the  *)
(* two touches only its own locals, so it is taken with the _load.         *)

\* Calls followed from one start of the registry.
MaxCalls == 4

\* Devices that ask to be paired.
PairingDevices == DeviceIds \cup {"device-789"}

\* PINs presented with a token: those of the pending tokens, and a guess.
PresentedPins(st) ==
    {st.tokens[k].pin : k \in DOMAIN st.tokens} \cup {WrongPin}

ThreadsFrame ==
    UNCHANGED <<issued, granted, failed, last, seedIn, seedOut, audioVars,
                hubVars, web, ingest, aired, hub_lock, hubop>>

\* issue_token up to its _save: the clock, the new token, the _load and the
\* payload with the token's record.
IssueLoad(t, ttl_minutes) ==
    /\ threads[t].pc = "idle"
    /\ calls < MaxCalls
    /\ calls' = calls + 1
    /\ minted < MaxTokens
    /\ \E res \in {issue_token(store, ClockAt(now), minted + 1, ttl_minutes)} :
           threads' = [threads EXCEPT ![t] =
                          [NoThreadCall EXCEPT !.pc = "saving",
                                               !.op = "issue_token",
                                               !.token = res.token,
                                               !.pending = res.store]]
    /\ minted' = minted + 1
    /\ UNCHANGED <<now, store, lockout_until, confirmed, written>>
    /\ ThreadsFrame

\* confirm_device, its first statement: the lockout is read.
ConfirmCheck(t, device_id, token, pin, dl, ip) ==
    /\ threads[t].pc = "idle"
    /\ calls < MaxCalls
    /\ calls' = calls + 1
    /\ threads' = [threads EXCEPT ![t] =
                      IF LockedOut(lockout_until, ClockAt(now))
                      THEN NoThreadCall
                      ELSE [NoThreadCall EXCEPT !.pc = "checked",
                               !.op = "confirm_device",
                               !.device_id = device_id, !.token = token,
                               !.pin = pin, !.dl = dl, !.ip = ip,
                               !.after = token \in confirmed]]
    /\ UNCHANGED <<now, store, lockout_until, minted, confirmed, written>>
    /\ ThreadsFrame

\* confirm_device from its _load up to its _save: the token is looked up in
\* the payload loaded, the PIN compared (a wrong one sets the lockout), the
\* seed computed and the payload changed.
ConfirmLoad(t) ==
    /\ threads[t].pc = "checked"
    /\ \E res \in {confirm_device(store, NoLockout, ClockAt(now),
                                   threads[t].device_id, threads[t].token,
                                   threads[t].pin, threads[t].dl[1],
                                   threads[t].dl[2], threads[t].dl[3],
                                   threads[t].ip)} :
           /\ threads' = [threads EXCEPT ![t] =
                             IF res.kind = "ok"
                             THEN [@ EXCEPT !.pc = "saving",
                                            !.pending = res.store]
                             ELSE NoThreadCall]
           /\ lockout_until' = IF res.kind = "InvalidPin" THEN res.lockout
                               ELSE lockout_until
    /\ UNCHANGED <<now, store, minted, confirmed, written, calls>>
    /\ ThreadsFrame

\* update_device_ip up to its _save.
UpdateLoad(t, device_id, ip) ==
    /\ threads[t].pc = "idle"
    /\ calls < MaxCalls
    /\ calls' = calls + 1
    /\ threads' = [threads EXCEPT ![t] =
                      IF device_id \in DOMAIN Load(store).devices
                      THEN [NoThreadCall EXCEPT !.pc = "saving",
                               !.op = "update_device_ip",
                               !.device_id = device_id, !.ip = ip,
                               !.pending = update_device_ip(store, device_id,
                                                            ip)]
                      ELSE NoThreadCall]
    /\ UNCHANGED <<now, store, lockout_until, minted, confirmed, written>>
    /\ ThreadsFrame

\* self._save(payload), and the call returns.
SavePayload(t) ==
    /\ threads[t].pc = "saving"
    /\ store' = Save(store, threads[t].pending)
    /\ threads' = [threads EXCEPT ![t] = NoThreadCall]
    /\ confirmed' = IF threads[t].op = "confirm_device"
                    THEN confirmed \cup {threads[t].token} ELSE confirmed
    /\ written' = IF threads[t].op = "confirm_device"
                  THEN written \cup
                       {[device_id |-> threads[t].device_id,
                         token |-> threads[t].token,
                         after |-> threads[t].after,
                         record |-> threads[t].pending.devices[
                                        threads[t].device_id]]}
                  ELSE written
    /\ UNCHANGED <<now, lockout_until, minted, calls>>
    /\ ThreadsFrame

ThreadsInit ==
    /\ RegistryInit /\ seedIn = NoSeedIn /\ seedOut = NoSeedOut
    /\ AudioIdle
    /\ HubIdle
    /\ ExtIdle

ThreadsNext ==
    \/ \E t \in WorkerThreads : IssueLoad(t, DefaultTtlMinutes)
    \/ Tick
    \/ \E t \in WorkerThreads, d \in PairingDevices,
          token \in PresentedTokens(minted), pin \in PresentedPins(store),
          ip \in ConfirmIps :
            ConfirmCheck(t, d, token, pin, <<7, -1, 3>>, ip)
    \/ \E t \in WorkerThreads : ConfirmLoad(t)
    \/ \E t \in WorkerThreads, d \in PairingDevices, ip \in UpdateIps :
            UpdateLoad(t, d, ip)
    \/ \E t \in WorkerThreads : SavePayload(t)

ThreadsSpec == ThreadsInit /\ [][ThreadsNext]_vars

----------------------------------------------------------------------------
(* Properties of compute_pairing_seed (under SeedSpec).                    *)

\* |numer| of the seed rule, computed from the rule as written:
\* ((hour+g) * (minute+b)) * (second+r) * year
\*     * (month*1000 + month*100 + (year mod 100) + day).
RuleT(in) ==
    ((in.issued_at.hour + in.g) * (in.issued_at.minute + in.b))
        * (in.issued_at.second + in.r)

RulePack(in) ==
    in.issued_at.month * 1000 + in.issued_at.month * 100
        + (in.issued_at.year % 100) + in.issued_at.day

RuleNumerMag(in) ==
    BigMul(BigMul(NatDigits(in.issued_at.year), RulePack(in)), Abs(RuleT(in)))

RuleD(in) == Abs(in.r) + Abs(in.g) + Abs(in.b)

\* q is |numer| / d rounded to the nearest integer, a half rounded up in
\* magnitude:  2*q*d <= 2*|numer| + d  and  2*|numer| < 2*q*d + d.
IsRoundHalfAway(q, n, d) ==
    /\ BigLeq(BigMul(q, 2 * d), BigAdd(BigMul(n, 2), d))
    /\ BigLess(BigMul(n, 2), BigAdd(BigMul(q, 2 * d), d))

SeedExampleIn == [issued_at |-> DateTime(2026, 2, 3, 10, 50, 47),
                  r |-> 7, g |-> -1, b |-> 3]

SeedExampleOut == BigInt(FALSE, <<1, 0, 5, 7, 4, 7, 2, 2, 1, 0, 3>>)

\* C8: for every timestamp and deltas with |r|+|g|+|b| > 0,
\* compute_pairing_seed returns numer / d rounded half away from zero, the
\* sign of numer kept; for 2026-02-03T10:50:47Z, r=7, g=-1, b=3 it returns
\* exactly 10574722103.
C8_SeedIsRoundedQuotient ==
    (seedOut.kind # "none" /\ RuleD(seedIn) > 0) =>
        /\ seedOut.kind = "ok"
        /\ IsRoundHalfAway(seedOut.value.mag, RuleNumerMag(seedIn),
                           RuleD(seedIn))
        /\ seedOut.value.neg =
               (RuleT(seedIn) < 0 /\ seedOut.value.mag # <<0>>)
        /\ (seedIn = SeedExampleIn => seedOut.value = SeedExampleOut)

\* The example has been computed, and so has an exact half (2 * rem = d)
\* and a negative numerator.
C8_Witness ==
    /\ seedOut.kind = "ok"
    /\ seedIn = SeedExampleIn
    /\ seedOut.value = SeedExampleOut

C8_WitnessHalf ==
    /\ seedOut.kind = "ok"
    /\ 2 * BigDivMod(RuleNumerMag(seedIn), RuleD(seedIn)).rem = RuleD(seedIn)

C8_WitnessNegative == seedOut.kind = "ok" /\ seedOut.value.neg

\* C9: with r = g = b = 0 compute_pairing_seed fails with InvalidDelta and
\* returns no seed, whatever the timestamp; no input with |r|+|g|+|b| > 0
\* fails this way.
C9_InvalidDeltaIffAllZero ==
    seedOut.kind # "none" =>
        /\ (seedOut.kind = "InvalidDelta") <=>
               (seedIn.r = 0 /\ seedIn.g = 0 /\ seedIn.b = 0)
        /\ (seedOut.kind = "InvalidDelta" => seedOut.value = ErrValue)
        /\ seedOut.kind \in {"ok", "InvalidDelta"}

C9_Witness ==
    /\ seedOut.kind = "InvalidDelta"
    /\ seedIn.r = 0 /\ seedIn.g = 0 /\ seedIn.b = 0
    /\ seedIn.issued_at # StartTime

----------------------------------------------------------------------------
(* Properties of the registry (under Spec).                                *)

\* The state a call finds, said without the registry's own helpers.
NowDt == ClockAt(now)

WithinLockout ==
    lockout_until # NoLockout /\ DtLess(NowDt, lockout_until[1])

IsPending(token) == token \in DOMAIN store.tokens

ExpiresAt(token) == fromisoformat(store.tokens[token].expires_at)

IsUnexpired(token) == DtLess(NowDt, ExpiresAt(token))

PinMatches(token, pin) == Strip(pin) = store.tokens[token].pin

\* This step is the call confirm_device(last'.device_id, last'.token,
\* pin = last'.pin, r, g, b, ip).
ConfirmCall(dl, ip) ==
    /\ last'.op = "confirm_device"
    /\ ConfirmDevice(last'.device_id, last'.token, last'.pin, dl, ip)

AnyConfirmCall == \E dl \in DeltaChoices, ip \in ConfirmIps : ConfirmCall(dl, ip)

\* C1: once confirm_device has succeeded with a token, every later
\* confirm_device presenting that token, when not locked out, fails with
\* InvalidToken.
C1_TokenSingleUse ==
    [][(AnyConfirmCall /\ last'.token \in confirmed /\ ~WithinLockout)
          => last'.kind = "InvalidToken"]_vars

C1_Witness ==
    /\ last.op = "confirm_device"
    /\ last.token \in confirmed
    /\ last.kind = "InvalidToken"

\* C2: while now < lockout_until every confirm_device call fails with
\* PairingLocked, whatever the device_id, the token (pending, unknown or
\* expired) and the PIN (the correct one included), and changes nothing.
C2_LockedOutRejectsAll ==
    [][(AnyConfirmCall /\ WithinLockout)
          => /\ last'.kind = "PairingLocked"
             /\ UNCHANGED <<store, lockout_until>>]_vars

\* Locked out although the token is pending and unexpired and the PIN right.
C2_Witness ==
    /\ last.op = "confirm_device"
    /\ last.kind = "PairingLocked"
    /\ IsPending(last.token)
    /\ IsUnexpired(last.token)
    /\ PinMatches(last.token, last.pin)

\* C3: a confirm_device call made while not locked out, on a pending
\* unexpired token, with a PIN that differs (after trimming) from the stored
\* one fails with InvalidPin and sets lockout_until to now + 10 minutes,
\* whichever token and device_id it targeted.
C3_WrongPinLocksOut ==
    [][(/\ AnyConfirmCall
        /\ ~WithinLockout
        /\ IsPending(last'.token)
        /\ IsUnexpired(last'.token)
        /\ ~PinMatches(last'.token, last'.pin))
          => /\ last'.kind = "InvalidPin"
             /\ lockout_until' = <<AddMinutes(NowDt, 10)>>]_vars

\* A mismatch on the second token, by the second device.
C3_Witness ==
    /\ last.op = "confirm_device"
    /\ last.kind = "InvalidPin"
    /\ last.token = 2
    /\ last.device_id = "device-456"
    /\ lockout_until = <<AddMinutes(NowDt, 10)>>

\* C4: for a pending token with now >= expires_at, a confirm_device call made
\* while not locked out fails with TokenExpired, even with the correct PIN
\* and valid deltas, and writes no device record.
C4_ExpiredTokenRejected ==
    [][(/\ AnyConfirmCall
        /\ ~WithinLockout
        /\ IsPending(last'.token)
        /\ ~IsUnexpired(last'.token))
          => /\ last'.kind = "TokenExpired"
             /\ store'.devices = store.devices]_vars

C4_Witness ==
    /\ last.op = "confirm_device"
    /\ last.kind = "TokenExpired"
    /\ IsPending(last.token)
    /\ PinMatches(last.token, last.pin)

\* C5: a confirm_device call that passes every check (not locked out, token
\* pending and unexpired, PIN equal, deltas not all zero) returns
\* seed = compute_pairing_seed(token.issued_at, r, g, b), leaves a device
\* record for device_id whose seed is the decimal string of that value and
\* whose last_seen_ip is the supplied ip, and removes the token from the
\* pending set, so that validate_device(device_id, str(seed)) is true.
C5_ConfirmPairsDevice ==
    [][\A dl \in DeltaChoices, ip \in ConfirmIps :
          (/\ ConfirmCall(dl, ip)
           /\ ~WithinLockout
           /\ IsPending(last'.token)
           /\ IsUnexpired(last'.token)
           /\ PinMatches(last'.token, last'.pin)
           /\ dl # <<0, 0, 0>>)
          => LET seed == compute_pairing_seed(issued[last'.token],
                                              dl[1], dl[2], dl[3])
                 dev  == last'.device_id
             IN  /\ seed.kind = "ok"
                 /\ last'.kind = "ok"
                 /\ last'.value = seed.value
                 /\ dev \in DOMAIN store'.devices
                 /\ store'.devices[dev].seed = IntStr(seed.value)
                 /\ store'.devices[dev].last_seen_ip = ip
                 /\ last'.token \notin DOMAIN store'.tokens
                 /\ validate_device(store', dev, IntStr(seed.value))]_vars

\* A pairing with the deltas of test_confirm_device on a token issued at
\* StartTime: the seed is the one of test_compute_pairing_seed_example.
C5_Witness ==
    /\ last.op = "confirm_device"
    /\ last.kind = "ok"
    /\ last.value = SeedExampleOut
    /\ last.device_id \in DOMAIN store.devices
    /\ store.devices[last.device_id].seed = IntStr(SeedExampleOut)

\* C6: re-pairing invalidates the old credential at once: only the seed
\* last returned by a successful confirm_device for device_id validates; a
\* different seed returned for it earlier does not.
C6_OnlyLastSeedValidates ==
    \A d \in DeviceIds :
        /\ (granted[d] # <<>>) =>
              validate_device(store, d, IntStr(granted[d][Len(granted[d])]))
        /\ \A i \in 1..Len(granted[d]) :
              (granted[d][i] # granted[d][Len(granted[d])]) =>
                  ~validate_device(store, d, IntStr(granted[d][i]))
        /\ \A c \in CredentialChoices(store, d) :
              validate_device(store, d, c) =>
                  (granted[d] # <<>> /\ c = IntStr(granted[d][Len(granted[d])]))

\* A device paired twice, with two different seeds, by its latest call.
C6_Witness ==
    /\ last.op = "confirm_device"
    /\ last.kind = "ok"
    /\ Len(granted[last.device_id]) = 2
    /\ granted[last.device_id][1] # granted[last.device_id][2]
    /\ ~validate_device(store, last.device_id,
                        IntStr(granted[last.device_id][1]))
    /\ validate_device(store, last.device_id,
                       IntStr(granted[last.device_id][2]))

\* C7: validate_device(device_id, credential) is true if and only if the
\* store holds a record for device_id whose seed string equals credential
\* character by character; it is false for every unknown device_id; it
\* never modifies the store.
C7_ValidateIsExactMatch ==
    [][(/\ last'.op = "validate_device"
        /\ ValidateDevice(last'.device_id, last'.credential))
          => /\ last'.valid <=>
                   \E d \in DOMAIN store.devices :
                       /\ d = last'.device_id
                       /\ Len(store.devices[d].seed) = Len(last'.credential)
                       /\ \A i \in 1..Len(last'.credential) :
                             store.devices[d].seed[i] = last'.credential[i]
             /\ (last'.device_id \notin DOMAIN store.devices => ~last'.valid)
             /\ store' = store]_vars

\* A credential that names the stored number but is not the stored string
\* is refused.
C7_Witness ==
    /\ last.op = "validate_device"
    /\ ~last.valid
    /\ last.device_id \in DOMAIN store.devices
    /\ last.credential = <<"0">> \o store.devices[last.device_id].seed

C7_WitnessValid == last.op = "validate_device" /\ last.valid

\* C10, as claimed: once a confirm_device on a token has failed with
\* InvalidPin or TokenExpired, no later confirm_device presenting that token
\* succeeds.
C10_FailedTokenNeverConfirmed ==
    (last.op = "confirm_device" /\ last.kind = "ok") => last.token \notin failed

----------------------------------------------------------------------------
(* Properties of the audio router (under RouterSpec).                      *)

\* Number of places of the queue q that hold payload x.
Occurrences(x, q) == Cardinality({i \in 1..Len(q) : q[i] = x})

Held(q) == {q[i] : i \in 1..Len(q)}

\* This step is producer p calling broadcast.
BroadcastCalled(p) == sent'[p] = sent[p] + 1

\* In this step the broadcast of p delivers to the queue of c.
DeliveredTo(p, c) ==
    /\ ~BroadcastCalled(p)
    /\ c \in inflight[p].pending
    /\ c \notin inflight'[p].pending

Registered(c) == \E ch \in DOMAIN sources : c \in sources[ch]

\* C11: broadcast(channel, P) has as its targets exactly the sinks that are
\* registered on that channel when it is called; it puts P exactly once into
\* each target and nothing into any other sink (so not into a sink
\* registered on another channel only); called on a channel with no sinks
\* it changes neither the consumer map nor any queue, then or later.
C11_BroadcastReachesChannelSinks ==
    [][/\ \A p \in Producers :
            /\ BroadcastCalled(p) =>
                 /\ inflight'[p].pending =
                        Consumers_of(sources, ProducerChannel[p])
                 /\ inflight'[p].payload = Payload(p, sent'[p])
                 /\ UNCHANGED <<sources, queues>>
            /\ ~BroadcastCalled(p) =>
                 /\ inflight'[p].pending \subseteq inflight[p].pending
                 /\ inflight'[p].payload = inflight[p].payload
            /\ \A c \in Consumers :
                 DeliveredTo(p, c) =>
                     /\ Occurrences(inflight[p].payload, queues[c]) = 0
                     /\ Occurrences(inflight[p].payload, queues'[c]) = 1
       /\ \A c \in Consumers :
            \A x \in Held(queues'[c]) \ Held(queues[c]) :
                \E p \in Producers :
                    DeliveredTo(p, c) /\ x = inflight[p].payload]_vars

\* Two sinks on channel "A" each hold the one payload broadcast on "A",
\* and nothing of the payload that was broadcast on "B".
C11_Witness ==
    /\ \A c \in Consumers :
          /\ consumer[c].pc = "pumping" /\ consumer[c].channel = "A"
          /\ queues[c] = <<Payload("p1", 1)>>
    /\ inflight["p1"].pending = {}
    /\ sent["p3"] = 1 /\ inflight["p3"].pending = {}

\* A broadcast on a channel that has no sink, while the other channel has.
C11_WitnessNoSinks ==
    /\ sent["p3"] = 1 /\ inflight["p3"].pending = {}
    /\ "B" \notin DOMAIN sources /\ "A" \in DOMAIN sources
    /\ \A c \in Consumers : queues[c] = <<>>

\* C12: a broadcast that delivers to a sink holding maxsize (32) payloads
\* removes exactly the oldest one and appends the new one: the length stays
\* at maxsize, the newest payload is last, the oldest is gone; and no sink
\* ever holds more than maxsize payloads.
C12_DropOldestAtCapacity ==
    /\ [](\A c \in Consumers : Len(queues[c]) <= maxsize)
    /\ [][\A p \in Producers, c \in Consumers :
            (DeliveredTo(p, c) /\ Len(queues[c]) = maxsize) =>
                /\ queues'[c] = Append(Tail(queues[c]), inflight[p].payload)
                /\ Len(queues'[c]) = maxsize
                /\ Occurrences(Head(queues[c]), queues'[c]) = 0]_vars

\* A sink that was full when payload 33 arrived: it holds payloads 2..33.
C12_Witness ==
    \E c \in Consumers :
        /\ Len(queues[c]) = maxsize
        /\ Head(queues[c]) = Payload("p1", 2)
        /\ queues[c][maxsize] = Payload("p1", maxsize + 1)

\* C13: every channel in the consumer map has at least one sink; when the
\* handler of the last sink of a channel unregisters it the channel entry
\* goes; an unregister naming a sink that is not registered on the named
\* channel removes no sink.
C13_NoEmptyChannels ==
    /\ [](\A ch \in DOMAIN sources : sources[ch] # {})
    /\ [][/\ \A c \in Consumers :
               (consumer[c].pc # "closed" /\ consumer'[c].pc = "closed"
                   /\ Consumers_of(sources, consumer[c].channel) = {c})
                 => consumer[c].channel \notin DOMAIN sources'
          /\ (\E ch \in Channels, c \in Consumers : UnregisterCall(ch, c))
                 => \A ch \in DOMAIN sources :
                        /\ ch \in DOMAIN sources'
                        /\ sources[ch] \subseteq sources'[ch]]_vars

\* The only sink of "A" has been unregistered, the sink of "B" is still
\* there: the map has the one key "B".
C13_Witness ==
    /\ consumer["c1"].pc = "closed" /\ consumer["c1"].channel = "A"
    /\ consumer["c2"].pc = "pumping" /\ consumer["c2"].channel = "B"
    /\ DOMAIN sources = {"B"}

\* The payloads of producer p among those of the sequence s, in order.
StreamOf(p, s) == SelectSeq(s, LAMBDA x : x.src = p)

Increasing(s) == \A i, j \in 1..Len(s) : i < j => s[i].seq < s[j].seq

\* What a consumer connection has been through: the payloads sent on to its
\* websocket, the one being sent, the ones queued.
Passage(c) ==
    received[c]
    \o (IF consumer[c].pc = "sending" THEN <<consumer[c].holding>> ELSE <<>>)
    \o queues[c]

\* C14: the payloads of one producer that a sink has handed on and holds
\* are in the order the producer sent them, with none twice.
C14_PerProducerOrder ==
    \A c \in Consumers, p \in Producers : Increasing(StreamOf(p, Passage(c)))

\* A sink that lost payload 1 to drop-oldest handed on payload 2 and holds
\* the payloads after it, in order.
C14_Witness ==
    \E c \in Consumers :
        /\ received[c] = <<Payload("p1", 2)>>
        /\ Len(queues[c]) >= 2
        /\ Head(queues[c]) = Payload("p1", 3)

\* Payloads of two producers interleaved in one sink.
C14_WitnessTwoProducers ==
    \E c \in Consumers :
        /\ StreamOf("p1", Passage(c)) = <<Payload("p1", 1), Payload("p1", 2)>>
        /\ Len(Passage(c)) = 3
        /\ Passage(c)[2] = Payload("p2", 1)

\* C15: a broadcast never waits for a consumer: while it has sinks left to
\* deliver to, the delivery to each of them can be done at once, whatever
\* the sinks hold and whether or not anything is ever taken from them, and
\* the router lock is not held.
C15_BroadcastNeverWaits ==
    \A p \in Producers :
        inflight[p].pending # {} =>
            /\ router_lock = Free
            /\ \A c \in inflight[p].pending : ENABLED Deliver(p, c)

\* A sink nothing was ever taken from is full and still to be delivered to,
\* while the other sink of the channel already has the payload.
C15_Witness ==
    /\ inflight["p1"].pending = {"c1"}
    /\ Len(queues["c1"]) = maxsize /\ received["c1"] = <<>>
    /\ consumer["c1"].pc = "pumping"
    /\ queues["c2"] # <<>>
    /\ queues["c2"][Len(queues["c2"])] = inflight["p1"].payload

\* C16: once the handler of a consumer connection has ended, for whatever
\* cause, its sink is a member of no channel, and no channel is left empty.
C16_HandlerExitUnregisters ==
    \A c \in Consumers :
        consumer[c].pc = "closed" =>
            /\ ~Registered(c)
            /\ \A ch \in DOMAIN sources : sources[ch] # {}

\* Both handlers have ended, one cancelled while waiting for a payload, one
\* on a failed send.
C16_Witness ==
    /\ consumer["c1"].pc = "closed" /\ consumer["c1"].exit = "cancel"
    /\ consumer["c2"].pc = "closed" /\ consumer["c2"].exit = "error"
    /\ received["c2"] = <<>>

\* A handler that returned on WebSocketDisconnect.
C16_WitnessDisconnect ==
    \E c \in Consumers :
        consumer[c].pc = "closed" /\ consumer[c].exit = "disconnect"

----------------------------------------------------------------------------
(* Properties of the device hub (under HubSpec).                           *)

InHub(w) == \E i \in 1..Len(hub_devices) : hub_devices[i].websocket = w

\* The connection presented a non-empty token equal to the seed stored for
\* its device_id.  (The registry is not written to once devices connect.)
PresentedStoredSeed(w) ==
    /\ conn[w].token # <<>>
    /\ conn[w].token[1] # <<>>
    /\ conn[w].device_id \in DOMAIN store.devices
    /\ store.devices[conn[w].device_id].seed = conn[w].token[1]

\* C17: a connection in the hub was accepted on a non-empty credential that
\* validated for its device_id; a connection whose credential was missing,
\* empty or not matching was closed with code 1008, not accepted, and is
\* not in the hub in any state that follows.
C17_OnlyValidatedDevicesRegistered ==
    \A w \in DeviceConns :
        /\ InHub(w) => conn[w].accepted /\ PresentedStoredSeed(w)
        /\ (conn[w].state # "new" /\ ~PresentedStoredSeed(w)) =>
               /\ conn[w].state = "rejected"
               /\ conn[w].code = 1008
               /\ ~conn[w].accepted
               /\ ~InHub(w)

\* One connection is registered on the stored seed, one was refused for a
\* non-matching credential, one for a missing token.
C17_Witness ==
    /\ conn["w1"].state = "open" /\ InHub("w1")
    /\ conn["w2"].state = "rejected" /\ conn["w2"].token # <<>>
    /\ conn["w2"].token[1] # <<>>
    /\ conn["w3"].state = "rejected" /\ conn["w3"].token = <<>>

HubIds == {hub_devices[i].device_id : i \in 1..Len(hub_devices)}

\* C18: the hub has one entry per device_id and count() is the number of
\* device ids registered; a connection registering under a device_id leaves
\* exactly one entry for it, holding that connection and its event loop;
\* a notification is aimed at connections of current entries only.
C18_OneEntryPerDevice ==
    /\ [](/\ \A i, j \in 1..Len(hub_devices) :
               i # j => hub_devices[i].device_id # hub_devices[j].device_id
          /\ count(hub_devices) = Cardinality(HubIds))
    /\ [][\A w \in DeviceConns :
            (conn[w].state = "new" /\ conn'[w].state = "open") =>
                \A i \in 1..Len(hub_devices') :
                    hub_devices'[i].device_id = conn'[w].device_id =>
                        hub_devices'[i] =
                            DeviceConnection(conn'[w].device_id, w,
                                             ConnLoop[w])]_vars
    /\ [][\A k \in Callers :
            (caller[k].status = "idle" /\ caller'[k].status = "notifying") =>
                \A i \in 1..Len(caller'[k].todo) :
                    \E j \in 1..Len(hub_devices) :
                        hub_devices[j] = caller'[k].todo[i]]_vars

\* The device registered on w1, then again on w2 while w1 was still open:
\* the one entry is w2's, and a notification of the device went to w2 and
\* none to w1.
C18_Witness ==
    /\ conn["w1"].state = "open" /\ conn["w2"].state = "open"
    /\ hub_devices = <<DeviceConnection("device-123", "w2", "https")>>
    /\ \E s \in sends : s.conn = "w2" /\ s.via = "notify_device"
    /\ \A s \in sends : s.conn # "w1"

\* C19: a send made for notify_all_threadsafe or notify_device_threadsafe
\* runs in the event loop that serves the connection, to which it was
\* handed; the call itself sends nothing.
C19_ThreadsafeSendsInOwningLoop ==
    /\ [](/\ \A s \in sends :
               s.via \in ThreadsafeOps => s.ctx = ConnLoop[s.conn]
          /\ \A x \in Contexts : \A i \in 1..Len(handoff[x]) :
               x = ConnLoop[handoff[x][i].websocket])
    /\ [][handoff' # handoff /\ notes' # notes => sends' = sends]_vars

\* Sends of thread-safe notifications were made on connections of both
\* servers, each in its own loop, none in the monitor's thread.
C19_Witness ==
    /\ \E s \in sends : s.via \in ThreadsafeOps /\ s.conn = "w2"
                        /\ s.ctx = "https"
    /\ \E s \in sends : s.via \in ThreadsafeOps /\ s.conn = "w3"
                        /\ s.ctx = "http"
    /\ \A s \in sends : s.via \in ThreadsafeOps

\* C20, as claimed: when a send of a notification fails while other devices
\* of the snapshot are still to be served, the caller does not end with the
\* error and goes on to the devices that remain.
C20_FailedSendIsolated ==
    [][\A k \in Callers :
          (/\ caller[k].status = "notifying"
           /\ caller'[k] # caller[k]
           /\ Len(caller[k].todo) >= 2
           /\ conn[Head(caller[k].todo).websocket].state # "open")
          => /\ caller'[k].status = "notifying"
             /\ caller'[k].todo = Tail(caller[k].todo)]_vars

----------------------------------------------------------------------------
(* Frame conditions of the registry (under Spec).                          *)

\* Minutes from a to b, two instants of one day with equal seconds.
MinutesOfDay(dt) == dt.hour * 60 + dt.minute

SameDate(a, b) == a.year = b.year /\ a.month = b.month /\ a.day = b.day

\* This step is the call issue_token(ttl).
IssueCall(ttl) == last'.op = "issue_token" /\ IssueToken(ttl)

\* C24: issue_token(ttl) adds exactly one record to the pending tokens, under
\* the token it returns, with expires_at = issued_at + ttl minutes (later
\* than issued_at) and the PIN it returns; every other pending token, every
\* device record and the lockout stay as they were.
C24_IssueTokenAddsOneRecord ==
    [][\A ttl \in TtlChoices :
          IssueCall(ttl) =>
            LET t      == last'.token
                record == store'.tokens[t]
                from   == fromisoformat(record.issued_at)
                to     == fromisoformat(record.expires_at)
            IN  /\ t \notin DOMAIN store.tokens
                /\ DOMAIN store'.tokens = (DOMAIN store.tokens) \cup {t}
                /\ DOMAIN record = {"issued_at", "expires_at", "pin"}
                /\ from = issued'[t]
                /\ from = NowDt
                /\ SameDate(from, to) /\ from.second = to.second
                /\ MinutesOfDay(to) - MinutesOfDay(from) = ttl
                /\ DtLess(from, to)
                /\ record.pin = last'.pin
                /\ \A u \in DOMAIN store.tokens :
                       store'.tokens[u] = store.tokens[u]
                /\ store'.devices = store.devices
                /\ lockout_until' = lockout_until]_vars

\* A second token issued while the first is pending and a lockout is set.
C24_Witness ==
    /\ last.op = "issue_token"
    /\ Cardinality(DOMAIN store.tokens) = 2
    /\ lockout_until # NoLockout

\* A token issued while a device is paired.
C24_WitnessDevice ==
    /\ last.op = "issue_token"
    /\ DOMAIN store.devices # {}
    /\ last.token \in DOMAIN store.tokens

\* This step is the call update_device_ip(last'.device_id, ip).
UpdateCall(ip) ==
    last'.op = "update_device_ip" /\ UpdateDeviceIp(last'.device_id, ip)

\* C25: update_device_ip(device_id, ip) leaves the whole store as it was when
\* device_id is unknown; for a known device it changes last_seen_ip of that
\* record only: its seed and paired_at, the other device records and the
\* pending tokens stay as they were.
C25_UpdateIpTouchesOneField ==
    [][\A ip \in UpdateIps :
          UpdateCall(ip) =>
            LET d == last'.device_id
            IN  /\ d \notin DOMAIN store.devices => store' = store
                /\ d \in DOMAIN store.devices =>
                     /\ DOMAIN store'.devices = DOMAIN store.devices
                     /\ store'.devices[d].last_seen_ip = ip
                     /\ store'.devices[d].seed = store.devices[d].seed
                     /\ store'.devices[d].paired_at
                        = store.devices[d].paired_at
                     /\ store'.devices[d].device_id
                        = store.devices[d].device_id
                     /\ \A e \in (DOMAIN store.devices) \ {d} :
                            store'.devices[e] = store.devices[e]
                     /\ store'.tokens = store.tokens]_vars

\* The address of a paired device updated, another device and a token there.
C25_Witness ==
    /\ last.op = "update_device_ip"
    /\ last.device_id \in DOMAIN store.devices
    /\ store.devices[last.device_id].last_seen_ip \in UpdateIps
    /\ \E e \in DOMAIN store.devices :
           e # last.device_id /\ store.devices[e].last_seen_ip \in ConfirmIps

\* The call made for a device that is not paired, beside one that is.
C25_WitnessUnknown ==
    /\ last.op = "update_device_ip"
    /\ last.device_id \notin DOMAIN store.devices
    /\ DOMAIN store.devices # {}

----------------------------------------------------------------------------
(* Properties of the HTTP boundary (under WebSpec).                        *)

Scheme == <<"h", "t", "t", "p", ":", "/", "/">>

\* Reading "http://<host>:<port>" back: the port follows the last colon.
LastColon(s) ==
    CHOOSE i \in 1..Len(s) :
        s[i] = ":" /\ \A j \in (i + 1)..Len(s) : s[j] # ":"

ServerScheme(s) == SubSeq(s, 1, Len(Scheme))

ServerHost(s) == SubSeq(s, Len(Scheme) + 1, LastColon(s) - 1)

ServerPort(s) == ParseInt(SubSeq(s, LastColon(s) + 1, Len(s)))

QrFields == {"v", "type", "server", "token", "issued_at", "expires_at"}

QrBuilt == web.route \in {"request_pairing", "build_qr_payload"}

\* C26: the payload build_qr_payload makes of a token has exactly the fields
\* v, type, server, token, issued_at, expires_at (no pin); its token is
\* the token's, its issued_at and expires_at parse back to the token's
\* timestamps, and its server reads http://<host>:<port>.
C26_QrPayloadRoundTrip ==
    QrBuilt =>
        LET payload == web.response.payload
            token   == web.request.token
        IN  /\ DOMAIN payload = QrFields
            /\ payload.token = token.token
            /\ web.response.token = token.token
            /\ fromisoformat(payload.issued_at) = token.issued_at
            /\ fromisoformat(payload.expires_at) = token.expires_at
            /\ ServerScheme(payload.server) = Scheme
            /\ ServerHost(payload.server) = web.request.host
            /\ ServerPort(payload.server) = web.request.http_port

\* The payload of the second token requested, issued after time has passed.
C26_Witness ==
    /\ web.route = "request_pairing"
    /\ web.request.token.token = 2
    /\ web.request.token.issued_at # StartTime
    /\ DtLess(web.request.token.issued_at, web.request.token.expires_at)

\* test_build_qr_payload.
C26_WitnessTest ==
    /\ web.route = "build_qr_payload"
    /\ web.request.http_port = 80
    /\ web.response.payload.server
       = <<"h", "t", "t", "p", ":", "/", "/", "1", "2", "7", ".", "0", ".",
           "0", ".", "1", ":", "8", "0">>
    /\ web.response.payload.token = <<"a", "b", "c">>

NamedFailures ==
    {"InvalidToken", "TokenExpired", "InvalidPin", "PairingLocked",
     "InvalidDelta"}

\* C27: a confirmation request carrying device_id, token, pin, r, g, b for a
\* pending unexpired token, with the right PIN and deltas not all zero,
\* while not locked out, pairs the device with the caller's address and the
\* token is used up.
C27_ConfirmBoundaryPairs ==
    [][\A ip \in ConfirmIps : \A body \in ConfirmBodies(store, minted) :
          (/\ ConfirmPairing(body, ip)
           /\ DOMAIN body = ConfirmRequired
           /\ ~WithinLockout
           /\ IsPending(body.token)
           /\ IsUnexpired(body.token)
           /\ PinMatches(body.token, body.pin)
           /\ Abs(body.r) + Abs(body.g) + Abs(body.b) > 0)
          => /\ web'.kind = "ok"
             /\ body.device_id \in DOMAIN store'.devices
             /\ store'.devices[body.device_id].last_seen_ip = ip
             /\ body.token \notin DOMAIN store'.tokens]_vars

\* The rest of that sentence: any other request carrying the six fields ends
\* in one of the named failure kinds.
ConfirmBoundaryFailsByName ==
    [][\A ip \in ConfirmIps : \A body \in ConfirmBodies(store, minted) :
          (/\ ConfirmPairing(body, ip)
           /\ DOMAIN body = ConfirmRequired
           /\ web'.kind # "ok")
          => web'.kind \in NamedFailures]_vars

----------------------------------------------------------------------------
(* Notifications from background threads (under HubSpec).                  *)

\* C30, as claimed: a notification issued on a background thread (the IP
\* monitor's ip_change, the tray's reauth_required) is handed to the loops
\* that own the connections, so that no connection is ever sent to in that
\* thread.
C30_BackgroundNotifiesMarshaled ==
    \A s \in sends : s.ctx # Monitor /\ s.ctx \in Loops

----------------------------------------------------------------------------
(* Properties of the producer side (under IngestSpec).                     *)

\* The Opus packet of a payload, and what an Opus packet decodes to.
Encoded(body) == <<"opus">> \o body

IsPacket(body) == body # <<>> /\ body[1] = "opus"

Decoded(body) == SubSeq(body, 2, Len(body))

\* The producer's first message was a control frame whose formats differ.
DeclaredDifferent(p) ==
    /\ ingest[p].first = "text"
    /\ ingest[p].source_format # ingest[p].target_format

Declared(p, source_format, target_format) ==
    /\ ingest[p].first = "text"
    /\ ingest[p].source_format = source_format
    /\ ingest[p].target_format = target_format

\* C21, as claimed: after a control frame whose format and target_format
\* differ every payload broadcast is the received one encoded or decoded;
\* when they are equal it is the received one.
C21_DeclaredFormatsTranscode ==
    \A p \in Producers : \A i \in 1..Len(aired[p]) :
        LET e == aired[p][i]
        IN  IF DeclaredDifferent(p)
            THEN \/ e.put = Encoded(e.got)
                 \/ IsPacket(e.got) /\ e.put = Decoded(e.got)
            ELSE e.put = e.got

\* C21, amended: after a control frame declaring pcm -> opus every payload
\* broadcast is the Opus encoding of the one received, after opus -> pcm it
\* is its decoding; after any other control frame (equal formats, or a pair
\* that is not pcm/opus) and without one it is the payload received.
C21_PcmOpusTranscoded ==
    \A p \in Producers : \A i \in 1..Len(aired[p]) :
        LET e == aired[p][i]
        IN  IF Declared(p, "pcm", "opus") THEN e.put = Encoded(e.got)
            ELSE IF Declared(p, "opus", "pcm")
                 THEN IsPacket(e.got) /\ e.put = Decoded(e.got)
            ELSE e.put = e.got

\* A stream declared pcm -> opus: two frames broadcast as Opus packets.
C21_Witness ==
    \E p \in Producers :
        /\ Declared(p, "pcm", "opus")
        /\ Len(aired[p]) = MaxFrames
        /\ \A i \in 1..Len(aired[p]) :
               aired[p][i].got = PcmFrame /\ aired[p][i].put = OpusPacket

\* A stream declared opus -> pcm: a packet broadcast as PCM.
C21_WitnessDecode ==
    \E p \in Producers :
        /\ Declared(p, "opus", "pcm")
        /\ aired[p] # <<>>
        /\ aired[p][1].got = OpusPacket /\ aired[p][1].put = PcmFrame

\* A stream declared flac -> opus, for which a codec was made: a frame
\* broadcast as received.
C21_WitnessOther ==
    \E p \in Producers :
        /\ Declared(p, "flac", "opus")
        /\ ingest[p].codec # NoCodec
        /\ aired[p] # <<>>
        /\ aired[p][1].put = aired[p][1].got

\* The messages of the broadcast calls of a producer, in order.
Gots(p) == [i \in 1..Len(aired[p]) |-> aired[p][i].got]

\* C22, as claimed: every binary message a producer's handler has received
\* was broadcast, once and in order, and no text frame was; a producer whose
\* first message was binary has no codec and its payloads are broadcast as
\* received, the first one first.
C22_EveryBinaryBroadcastOnce ==
    \A p \in Producers :
        /\ Gots(p) = ingest[p].heard
        /\ ingest[p].first = "bytes" =>
             /\ ingest[p].codec = NoCodec
             /\ \A i \in 1..Len(aired[p]) : aired[p][i].put = aired[p][i].got

\* C23, as claimed: a failure of the codec, when it is made or when it
\* transcodes a payload, does not end the producer's handler: a handler ends
\* only when its producer goes away.
C23_CodecFailureDegrades ==
    \A p \in Producers :
        /\ ingest[p].exit # "OpusError"
        /\ ingest[p].pc = "ended" => ingest[p].exit = "disconnect"

----------------------------------------------------------------------------
(* The registry under concurrent calls.                                    *)

\* C28: once a confirm_device call has removed a token from the pending set
\* and returned, no confirm_device call that starts afterwards succeeds with
\* that token, whatever issue_token, update_device_ip and confirm_device
\* calls run on other threads: the token is not pending again, and no record
\* is saved by a call that presented it after the first had returned.
C28_TokenSingleUseSurvivesConcurrency ==
    /\ \A tok \in confirmed : tok \notin DOMAIN store.tokens
    /\ \A w \in written : ~w.after

\* The device records on file that confirm_device made from the token.
CreatedFrom(tok) ==
    {d \in DOMAIN store.devices :
        \E w \in written :
            /\ w.token = tok
            /\ w.device_id = d
            /\ w.record.seed = store.devices[d].seed
            /\ w.record.paired_at = store.devices[d].paired_at}

\* C29: when confirm_device calls on several threads present one pending
\* token with its PIN for different devices, the store at no time holds more
\* than two device records made from that token.
C29_DoubleConfirmationBounded ==
    \A tok \in 1..minted : Cardinality(CreatedFrom(tok)) <= 2

\* Two calls with one token, for two devices, have both returned a seed, and
\* a record made from the token is on file.
C29_Witness ==
    \E w1 \in written, w2 \in written :
        /\ w1.token = w2.token
        /\ w1.device_id # w2.device_id
        /\ ~w1.after /\ ~w2.after
        /\ CreatedFrom(w1.token) # {}

\* Three calls with one token, for three devices, have all returned a seed.
C29_WitnessThree ==
    \E tok \in 1..minted :
        /\ Cardinality({w.device_id : w \in {x \in written : x.token = tok}})
               = 3
        /\ CreatedFrom(tok) # {}

----------------------------------------------------------------------------
(* Failed confirmations.                                                   *)

\* C35: a confirm_device call that fails (PairingLocked, InvalidToken,
\* TokenExpired, InvalidPin or InvalidDelta) leaves the devices mapping as it
\* was, and changes lockout_until only when the failure is InvalidPin.
C35_FailedConfirmKeepsDevices ==
    [][(AnyConfirmCall /\ last'.kind # "ok") =>
          /\ last'.kind \in NamedFailures
          /\ store'.devices = store.devices
          /\ (lockout_until' # lockout_until => last'.kind = "InvalidPin")]_vars

\* A wrong PIN presented for a device that is paired already: the lockout is
\* set and the record on file is the one made before.
C35_Witness ==
    /\ last.op = "confirm_device"
    /\ last.kind = "InvalidPin"
    /\ last.device_id \in DOMAIN store.devices
    /\ lockout_until # NoLockout
    /\ last.token \in DOMAIN store.tokens

\* Deltas that add up to nothing, presented with the token's PIN.
C35_WitnessDelta ==
    /\ last.op = "confirm_device"
    /\ last.kind = "InvalidDelta"
    /\ last.token \in DOMAIN store.tokens
    /\ last.pin = store.tokens[last.token].pin

----------------------------------------------------------------------------
(* A PIN mismatch and the tokens pending.                                  *)

\* The token record was issued with the default ttl.
DefaultTtl(record) ==
    fromisoformat(record.expires_at)
    = AddMinutes(fromisoformat(record.issued_at), DefaultTtlMinutes)

\* C34: a PIN mismatch sets lockout_until to the time of the mismatch plus 10
\* minutes, which no token of the default ttl pending at that moment
\* outlives; and a confirm_device that succeeds with a token of the default
\* ttl, after a mismatch, does so with a token issued after the mismatch
\* (one that expires later than lockout_until): a token issued at or before
\* the mismatch is never confirmed afterwards.
C34_MismatchKillsPendingTokens ==
    [][/\ (AnyConfirmCall /\ last'.kind = "InvalidPin") =>
            /\ lockout_until' = <<AddMinutes(ClockAt(now), LockoutMinutes)>>
            /\ \A t \in DOMAIN store'.tokens :
                   DefaultTtl(store'.tokens[t]) =>
                     DtLeq(fromisoformat(store'.tokens[t].expires_at),
                           lockout_until'[1])
       /\ (/\ AnyConfirmCall /\ last'.kind = "ok"
           /\ lockout_until # NoLockout
           /\ DefaultTtl(store.tokens[last'.token])) =>
            /\ DtLess(lockout_until[1],
                      fromisoformat(store.tokens[last'.token].expires_at))
            /\ DtLess(lockout_until[1],
                      AddMinutes(issued[last'.token], LockoutMinutes))]_vars

\* A token of the default ttl that was pending at a mismatch, presented with
\* its PIN at the moment the lockout ends: it has expired.
C34_Witness ==
    /\ last.op = "confirm_device"
    /\ last.kind = "TokenExpired"
    /\ lockout_until = <<ClockAt(now)>>
    /\ last.token \in DOMAIN store.tokens
    /\ DefaultTtl(store.tokens[last.token])
    /\ last.pin = store.tokens[last.token].pin
    /\ DtLeq(issued[last.token], ClockAt(now - LockoutMinutes))

\* A token issued after a mismatch, confirmed once the lockout is over.
C34_WitnessLater ==
    /\ last.op = "confirm_device"
    /\ last.kind = "ok"
    /\ lockout_until # NoLockout
    /\ now >= LockoutMinutes
    /\ DtLess(ClockAt(now - LockoutMinutes), issued[last.token])

----------------------------------------------------------------------------
(* The hub and the connections that are live.                              *)

\* The connection was accepted and its device_ws handler has not ended.
Live(w) == conn[w].state \in {"open", "dead"}

\* C32: the hub has an entry for a device id exactly when a connection of
\* that id is accepted with its handler still running, and the entry is such
\* a connection of that id: a newer connection stays registered when the
\* handler of an older one of the same id ends.
C32_HubMirrorsLiveConnections ==
    \A d \in DeviceIds :
        /\ EntriesOf(hub_devices, d) # {}
               <=> \E w \in DeviceConns : Live(w) /\ conn[w].device_id = d
        /\ \A i \in EntriesOf(hub_devices, d) :
               /\ Live(hub_devices[i].websocket)
               /\ conn[hub_devices[i].websocket].device_id = d

----------------------------------------------------------------------------
(* The hub lock.                                                           *)

\* C31: in every method of the hub the lock is held only inside the block
\* that reads or writes the dict: whoever holds it is at that access, which
\* waits for nothing, and a notify method whose sends are under way does not
\* hold it; so while a send is slow or blocked the lock is free, or held by
\* a context whose next step releases it, and another thread's register,
\* unregister or count goes through.
C31_LockOnlyAroundMap ==
    /\ \A x \in Contexts :
           /\ hub_lock = x <=> hubop[x].pc = "locked"
           /\ hub_lock = x => ENABLED (HubAccess(x) /\ LockFrame)
    /\ \A k \in Callers :
           (caller[k].status = "notifying" /\ hub_lock = k)
              => hubop[k].op \in {"register", "unregister", "count"}
    /\ hub_lock \in Contexts \cup {Free}

\* The monitor's notify_all waits on a send to a connection whose client is
\* gone, and meanwhile a server loop is inside register.
C31_Witness ==
    /\ caller[Monitor].status = "notifying"
    /\ conn[Head(caller[Monitor].todo).websocket].state = "dead"
    /\ \E x \in Loops :
           /\ hub_lock = x
           /\ hubop[x].op = "register"

\* The same with count, and with unregister of the connection waited on.
C31_WitnessCount ==
    /\ caller["http"].status = "notifying"
    /\ hub_lock = Monitor
    /\ hubop[Monitor].op = "count"

C31_WitnessUnregister ==
    /\ caller[Monitor].status = "notifying"
    /\ \E x \in Loops :
           /\ hub_lock = x
           /\ hubop[x].op = "unregister"
           /\ hubop[x].websocket = Head(caller[Monitor].todo).websocket

----------------------------------------------------------------------------
(* A pairing once made, under concurrent calls.                            *)

\* The seeds confirm_device has returned for the device, as strings.
SeedsReturned(d) == {w.record.seed : w \in {x \in written : x.device_id = d}}

\* C33: once confirm_device has returned a seed for a device, the device
\* validates with a seed returned for it (the last one), whatever
\* issue_token, update_device_ip and confirm_device calls for other devices
\* run on other threads.
C33_PairingDurableUnderConcurrency ==
    \A d \in PairingDevices :
        SeedsReturned(d) # {} =>
            \E seed \in SeedsReturned(d) : validate_device(store, d, seed)

====
